---- MODULE Spec2Model ----
(***************************************************************************)
(* A model of the unified document pipeline (app/processing/pipeline.py)   *)
(* and of the parsers and stage runners it drives.                         *)
(*                                                                         *)
(* Texts returned by external services are modelled by their structure:    *)
(* a classification output is the document type it names, the parts of    *)
(* its "Line of Coverage" list and its plan lines; a plan-identification   *)
(* output is a sequence of "### LOC" headers and plan lines.  The answers  *)
(* of the external services are drawn from bounded sets.                   *)
(***************************************************************************)
EXTENDS Integers, Sequences, FiniteSets

\* ------------------------------------------------------------------ bounds

\* Parts of the "Line of Coverage" list of a classification output.
MaxLocParts == 2
\* Plan lines of a classification output.
MaxClfLines == 2
\* Plan lines of one plan-identification output.
MaxPidLines == 2
\* Entries of the largest selection handed to the fan-out on its own.
MaxTasks == 9

\* ------------------------------------------------------- program constants

TOKEN_HARD_LIMIT == 50000
AutoReadLimit == 4
max_workers == 8

\* ----------------------------------------------------------------- strings

\* "~" stands for an en dash (U+2013) inside a plan name.
EnDashName == "HMO~20"

\* str.strip() on the strings of the model that carry outer whitespace.
Strip(s) ==
  CASE s = " Dental" -> "Dental"
    [] s = " HMO Gold" -> "HMO Gold"
    [] s = " " -> ""
    [] OTHER -> s

\* str.lower() where the code compares with "other".
Lower(s) ==
  CASE s = "Other" -> "other"
    [] s = "OTHER" -> "other"
    [] OTHER -> s

\* norm() of semantic_match_plan_name: en and em dashes become "-", then strip.
norm(s) ==
  IF s = EnDashName THEN "HMO-20" ELSE Strip(s)

SeqsUpTo(S, n) == UNION {[1..k -> S] : k \in 0..n}

Range(s) == {s[i] : i \in 1..Len(s)}

RECURSIVE SumSeq(_)
SumSeq(s) == IF s = <<>> THEN 0 ELSE Head(s) + SumSeq(Tail(s))

\* ---------------------------------------------------- insertion-ordered dict
\* A Python dict LOC -> list is a sequence of [loc, plans] in insertion order.

DictKeys(d) == [i \in 1..Len(d) |-> d[i].loc]

DictHas(d, k) == \E i \in 1..Len(d) : d[i].loc = k

DictGet(d, k) ==
  IF DictHas(d, k) THEN d[CHOOSE i \in 1..Len(d) : d[i].loc = k].plans ELSE <<>>

DictSet(d, k, v) ==
  IF DictHas(d, k)
  THEN [i \in 1..Len(d) |-> IF d[i].loc = k THEN [loc |-> k, plans |-> v] ELSE d[i]]
  ELSE Append(d, [loc |-> k, plans |-> v])

\* d.setdefault(k, []).extend(items)
DictExtend(d, k, items) == DictSet(d, k, DictGet(d, k) \o items)

\* sum(len(v) for v in sel.values())
count_selected(sel) == SumSeq([i \in 1..Len(sel) |-> Len(sel[i].plans)])

\* ------------------------------------------------------------------ parsers

\* parse_line_of_coverage on the parts of the matched "[...]" list; <<>> is a
\* text in which LOC_RE finds no match.
RECURSIVE FilterLocParts(_)
FilterLocParts(parts) ==
  IF parts = <<>> THEN <<>>
  ELSE LET p == Strip(Head(parts)) IN
       IF p # "" /\ Lower(p) # "other"
       THEN <<p>> \o FilterLocParts(Tail(parts))
       ELSE FilterLocParts(Tail(parts))

parse_line_of_coverage(text) == FilterLocParts(text.loc_parts)

\* parse_plan_listing over the items of a text: only items that match PLAN_RE
\* (kind "plan") are read; loc and plan are stripped and must be non-empty.
RECURSIVE ParseItems(_, _)
ParseItems(items, out) ==
  IF items = <<>> THEN out
  ELSE LET m == Head(items)
           loc == Strip(m.loc)
           plan == Strip(m.plan)
       IN IF m.kind = "plan" /\ loc # "" /\ plan # ""
          THEN ParseItems(Tail(items),
                          DictExtend(out, loc, <<[plan |-> plan, pages |-> m.pages]>>))
          ELSE ParseItems(Tail(items), out)

parse_plan_listing(items) == ParseItems(items, <<>>)

\* ------------------------------------------------------------------ inputs

Options == {"Auto-Read", "Search", "All Plans"}

\* Extensions of the uploaded file.
Exts == {"pdf", "docx", "txt"}

\* The query of a Search request (main.py passes plan_name stripped).
Queries == {"hmo gold"}

\* Token counts on both sides of the hard limit.
TokenCounts == {TOKEN_HARD_LIMIT, TOKEN_HARD_LIMIT + 1}

\* Parts of the "[...]" list of a classification output; "Pet" is a LOC that
\* no template mapping knows.
RawLocParts == {"Medical", " Dental", "Other", "Pet"}

PlanLine(loc, plan, pages) ==
  [kind |-> "plan", loc |-> loc, plan |-> plan, pages |-> pages]

HeaderLine(loc) ==
  [kind |-> "header", loc |-> loc, plan |-> "", pages |-> <<>>]

\* Plan lines a classification output may hold.
ClfPlanLines ==
  { PlanLine("Medical", "HMO Gold", <<1>>),
    PlanLine("Medical", EnDashName, <<2>>),
    PlanLine("Dental", "HMO Gold", <<3>>) }

\* Plan lines a plan-identification output may hold.
PidPlanLines ==
  { PlanLine("Medical", "HMO Gold", <<11>>),
    PlanLine("Medical", "EPO", <<12>>),
    PlanLine("Medical", "POS", <<13>>),
    PlanLine("Medical", "HDHP", <<14>>) }

DocTypes == {"SBC", "Benefit Summary"}

\* What the chat endpoint may answer to the classification prompt.
ClassificationOutputs ==
  [doc_type : DocTypes,
   loc_parts : SeqsUpTo(RawLocParts, MaxLocParts),
   items : SeqsUpTo(ClfPlanLines, MaxClfLines)]

\* What the chat endpoint may answer to the plan-identification prompt.
PidOutputs == SeqsUpTo(PidPlanLines, MaxPidLines)

\* What the chat endpoint may answer to a key-parameter prompt for a LOC: a
\* text, and for one of the LOCs also nothing.
KpOutputs(loc) == {"KP " \o loc} \cup (IF loc = "Dental" THEN {""} ELSE {})

\* What the chat endpoint may answer to a per-plan extraction prompt.
PerPlanOutputs == {"extraction"}

\* An SBC test that never fires.
ContainsSBC_never(text) == FALSE

\* "Basic Info::Document Type::SBC" in classification_out
ContainsSBC(text) == text.doc_type = "SBC"

NoText == [doc_type |-> "", loc_parts |-> <<>>, items |-> <<>>]

\* ------------------------------------------------------------ stage runners

\* Keys of KEY_PARAMETER_PROMPT_MAP and of PROMPT_MAP.
KnownLocs ==
  {"Medical", "Dental", "Vision", "LifeADD", "STD", "LTD",
   "VL", "VSTD", "VLTD", "VA", "VHI", "VCI"}

\* An outcome of a call: a returned text, or a raised error.
Returned(text, called) == [raised |-> FALSE, error |-> "", text |-> text, called |-> called]
Raised(error, called, none) == [raised |-> TRUE, error |-> error, text |-> none, called |-> called]

\* The semantic matcher's post-processing of the chat answer,
\* out.strip().strip('"').strip("'"): whitespace inside quotes stays.
Unquote(raw) == IF raw.quote = "" THEN Strip(raw.body) ELSE raw.body

\* Raw chat answers to the matcher prompt over the given names: "NA", a name of
\* the normalized list, or a string that is not in the list, bare or quoted.
MatcherRawAnswers(plan_names) ==
  LET names == {norm(plan_names[i]) : i \in 1..Len(plan_names)} IN
  [body : {"NA", "Basic Plan"} \cup names \cup ({" HMO Gold"} \cap {" " \o n : n \in names}),
   quote : {"", "'"}]

\* semantic_match_plan_name: one chat call; its outcomes.
semantic_match_plan_name(plan_names) ==
  {Returned(Unquote(raw), TRUE) : raw \in MatcherRawAnswers(plan_names)}
    \cup {Raised("UpstreamError", TRUE, "")}

\* run_classification: fetch the template, compose, one chat call.
run_classification ==
  {Returned(t, TRUE) : t \in ClassificationOutputs}
    \cup {Raised("UpstreamError", FALSE, NoText), Raised("UpstreamError", TRUE, NoText)}

\* The runner without the early return of lines 39-45.
run_key_param_extractor_no_skip(loc) ==
  {Returned(t, TRUE) : t \in KpOutputs(loc)}
    \cup {Raised("UpstreamError", FALSE, ""), Raised("UpstreamError", TRUE, "")}

\* run_key_param_extractor for one LOC.
run_key_param_extractor(loc) ==
  IF loc \notin KnownLocs
  THEN {Returned("", FALSE)}
  ELSE {Returned(t, TRUE) : t \in KpOutputs(loc)}
         \cup {Raised("UpstreamError", FALSE, ""), Raised("UpstreamError", TRUE, "")}

\* Parameters of llm.chat_completion, and the keyword arguments that
\* run_plan_identification passes to it.
ChatCompletionParams == {"messages", "request_overrides", "return_full", "log_label"}
PlanIdentKeywords == {"temperature", "return_full", "log_label"}

\* run_plan_identification: fetch the template (may fail), compose, then call
\* chat_completion with its keywords; an unexpected keyword is a TypeError
\* raised before any request is sent.
run_plan_identification ==
  {Raised("UpstreamError", FALSE, <<>>)}
    \cup (IF PlanIdentKeywords \subseteq ChatCompletionParams
          THEN {Returned(t, TRUE) : t \in PidOutputs} \cup {Raised("UpstreamError", TRUE, <<>>)}
          ELSE {Raised("TypeError", FALSE, <<>>)})

\* The same stage when its chat call goes through and returns the answer.
plan_identification_answers ==
  {Returned(t, TRUE) : t \in PidOutputs}

\* ------------------------------------------------------------------- state

VARIABLES
  pc,                    \* position of run_pipeline
  input_ext,             \* extension of input_path
  option,
  search_plan_name,
  token_count,
  classification_out,
  locs,                  \* parse_line_of_coverage(classification_out)
  plan_listing,          \* parse_plan_listing(classification_out)
  selected,
  need_pid_search,
  matches,               \* results of the semantic-matcher calls, in call order
  key_param_outputs,     \* LOC -> text, as [loc, plans] pairs with plans the text
  kp_i,                  \* index of the next LOC of the key-parameter loop
  step7_joined,          \* the parts joined by "\n\n"
  plan_id_output,        \* the items of the plan-identification output
  pid_listing,
  pid_i,                 \* index of the next LOC of the per-LOC plan-id loop
  pid_locs,              \* per call of run_plan_identification, the LOCs of its {{LOC}}
  futs,                  \* the submitted extractions, in submission order
  status,                \* per future: queued, running, ok, failed
  response,              \* the dict run_pipeline returns
  error,                 \* the exception that left run_pipeline
  calls                  \* chat-endpoint calls issued, by stage, in order

\* The state of the services around run_pipeline: the document a stage runner
\* is given and the message lists handed to llm.chat_completion.
VARIABLES
  markdown_text,         \* the document text, as a sequence of tokens
  chat_log,              \* message lists passed to llm.chat_completion, in order
  composed,              \* a call of the message composer: its arguments and result
  prompt_cache           \* the prompt_cache argument of run_pipeline

\* The state of the HTTP application (main.py).
VARIABLES
  http_requests,         \* the requests that reached a POST handler, by id
  http_responses,        \* status code of the answer to each, 0 before it
  JOBS,                  \* the job registry: rid -> entry
  tmp_files,             \* requests whose upload save_upload_to_tmp has written
  pipeline_calls,        \* requests for which run_pipeline was invoked
  tasks,                 \* the background task of each request
  last_poll              \* the latest answer of GET /v1/jobs/{rid}

\* The prompt store client (services/vellum.py) and the threads that use it.
VARIABLES
  _PROMPT_CACHE,         \* the module's cache: key -> text
  vellum_store,          \* the text the store deploys for each slug at present
  getters,               \* the calls of get_prompt, one per thread
  fetches,               \* key -> fetches of get_prompt_from_vellum that returned a text
  vellum_fetch           \* the last call of get_prompt on its own: answers, POSTs, outcome

\* The two parsers of utils/parse.py applied to texts.
VARIABLES
  rt_pc,                 \* position of the round trip
  rt_input,              \* the value or the text the round trip starts from
  rt_text,               \* the text that was formatted
  rt_parsed,             \* what the parser returned
  rt_reparsed            \* what it returned for the re-emitted text

composeVars == <<markdown_text, chat_log, composed, prompt_cache>>
serverVars ==
  <<http_requests, http_responses, JOBS, tmp_files, pipeline_calls, tasks, last_poll>>
promptVars == <<_PROMPT_CACHE, vellum_store, getters, fetches, vellum_fetch>>
parseVars == <<rt_pc, rt_input, rt_text, rt_parsed, rt_reparsed>>
serviceVars == <<composeVars, serverVars, promptVars, parseVars>>

\* The stage runners before any call.
\* No call of the message composer was made.
NotComposed ==
  [called |-> FALSE, template |-> <<>>, system_text |-> <<>>, extra_user_texts |-> <<>>,
   enable_cache |-> FALSE, messages |-> <<>>]

ComposeIdle ==
  /\ markdown_text = <<>>
  /\ chat_log = <<>>
  /\ composed = NotComposed
  /\ prompt_cache = TRUE

\* The application before any request.
ServerIdle ==
  /\ http_requests = <<>>
  /\ http_responses = <<>>
  /\ JOBS = <<>>
  /\ tmp_files = {}
  /\ pipeline_calls = {}
  /\ tasks = <<>>
  /\ last_poll = [rid |-> 0, code |-> 0, body |-> <<>>]

\* The prompt store client before any call.
\* An answer of the template store to one POST, or the failure of the request.
StoreAnswer(kind, code, has_text, has_fallback) ==
  [kind |-> kind, status_code |-> code, has_text |-> has_text, has_fallback |-> has_fallback]

NoAnswer == StoreAnswer("none", 0, FALSE, FALSE)

\* get_prompt was not called.
NoFetch ==
  [n |-> 0, slug |-> "", api_key |-> FALSE, first |-> NoAnswer, second |-> NoAnswer,
   posts |-> <<>>, raised |-> FALSE, code |-> 0, text |-> ""]

PromptsIdle ==
  /\ _PROMPT_CACHE = <<>>
  /\ vellum_store = <<>>
  /\ getters = <<>>
  /\ fetches = <<>>
  /\ vellum_fetch = NoFetch

\* No text handed to the parsers.
ParseIdle ==
  /\ rt_pc = "idle"
  /\ rt_input = <<>>
  /\ rt_text = <<>>
  /\ rt_parsed = <<>>
  /\ rt_reparsed = <<>>

\* The services before any request.
ServicesIdle == ComposeIdle /\ ServerIdle /\ PromptsIdle /\ ParseIdle

vars ==
  <<pc, input_ext, option, search_plan_name, token_count, classification_out,
    locs, plan_listing, selected, need_pid_search, matches, key_param_outputs,
    kp_i, step7_joined, plan_id_output, pid_listing, pid_i, pid_locs, futs, status,
    response, error, calls, serviceVars>>

inputVars == <<input_ext, option, search_plan_name>>
classifyVars == <<classification_out, locs, plan_listing>>
kpVars == <<key_param_outputs, kp_i, step7_joined>>
pidVars == <<plan_id_output, pid_listing, pid_i, pid_locs>>
poolVars == <<futs, status>>

NoResponse ==
  [message |-> "", classification_output |-> NoText, kp_extract_output |-> <<>>,
   plan_name_identification_output |-> <<>>, plans |-> <<>>]

OverflowMessage ==
  "Document exceeds 50,000 tokens. Pipeline stopped processing. Please try again."
SBCMessage == "SBC document processed (SBC path)."
NotFoundMessage(name) == "Plan \"" \o name \o "\" not found."

Init ==
  /\ pc = "start"
  /\ input_ext \in Exts
  /\ option \in Options
  /\ search_plan_name \in (IF option = "Search" THEN Queries ELSE {""})
  /\ token_count = 0
  /\ classification_out = NoText
  /\ locs = <<>>
  /\ plan_listing = <<>>
  /\ selected = <<>>
  /\ need_pid_search = FALSE
  /\ matches = <<>>
  /\ key_param_outputs = <<>>
  /\ kp_i = 1
  /\ step7_joined = <<>>
  /\ plan_id_output = <<>>
  /\ pid_listing = <<>>
  /\ pid_i = 1
  /\ pid_locs = <<>>
  /\ futs = <<>>
  /\ status = <<>>
  /\ response = NoResponse
  /\ error = ""
  /\ calls = <<>>
  /\ ServicesIdle

\* An exception leaves run_pipeline.
Raise(e) ==
  /\ pc' = "raised"
  /\ error' = e
  /\ UNCHANGED response

\* run_pipeline returns the dict.
Return(message, clf, kp, pid, plans) ==
  /\ pc' = "returned"
  /\ response' = [message |-> message,
                  classification_output |-> clf,
                  kp_extract_output |-> kp,
                  plan_name_identification_output |-> pid,
                  plans |-> plans]
  /\ UNCHANGED error

\* ---------------------------------------------- normalization, token guard

\* _maybe_pdf and reducto.pdf_to_markdown (lines 62-65)
Normalize ==
  /\ pc = "start"
  /\ \E ok \in BOOLEAN :
       CASE input_ext = "pdf" ->
              IF ok THEN pc' = "count" /\ UNCHANGED <<response, error>>
              ELSE Raise("UpstreamError")
         [] input_ext \in {"doc", "docx", "xls", "xlsx", "xlsm"} ->
              Raise("NotImplementedError")
         [] OTHER -> Raise("ValueError")
  /\ UNCHANGED <<serviceVars, inputVars, token_count, classifyVars, selected, need_pid_search,
                 matches, kpVars, pidVars, poolVars, calls>>

\* A guard that lets every count through.
ExceedsLimit_never(count) == FALSE

\* token_count > settings.TOKEN_HARD_LIMIT
ExceedsLimit(count) == count > TOKEN_HARD_LIMIT

\* count_tokens_google and the token guard (lines 66-78)
TokenGuard ==
  /\ pc = "count"
  /\ \E r \in {[raised |-> FALSE, count |-> c] : c \in TokenCounts}
               \cup {[raised |-> TRUE, count |-> 0]} :
       IF r.raised
       THEN Raise("UpstreamError") /\ UNCHANGED token_count
       ELSE /\ token_count' = r.count
            /\ IF ExceedsLimit(r.count)
               THEN Return(OverflowMessage, NoText, <<>>, <<>>, <<>>)
               ELSE pc' = "classify" /\ UNCHANGED <<response, error>>
  /\ UNCHANGED <<serviceVars, inputVars, classifyVars, selected, need_pid_search,
                 matches, kpVars, pidVars, poolVars, calls>>

\* ----------------------------------------------------------- classification

Called(r, stage) == IF r.called THEN Append(calls, stage) ELSE calls

\* run_classification, the SBC short-circuit and the two parsers (lines 81-100)
Classification ==
  /\ pc = "classify"
  /\ \E r \in run_classification :
       /\ calls' = Called(r, "classification")
       /\ IF r.raised
          THEN Raise(r.error) /\ UNCHANGED classifyVars
          ELSE /\ classification_out' = r.text
               /\ IF ContainsSBC(r.text)
                  THEN /\ Return(SBCMessage, r.text, <<>>, <<>>, <<>>)
                       /\ UNCHANGED <<locs, plan_listing>>
                  ELSE /\ locs' = parse_line_of_coverage(r.text)
                       /\ plan_listing' = parse_plan_listing(r.text.items)
                       /\ pc' = "prelim"
                       /\ UNCHANGED <<response, error>>
  /\ UNCHANGED <<serviceVars, inputVars, token_count, selected, need_pid_search,
                 matches, kpVars, pidVars, poolVars>>

\* ------------------------------------------------------ preliminary selection

Min(a, b) == IF a < b THEN a ELSE b

\* plans[:n]
Take(plans, n) == SubSeq(plans, 1, Min(n, Len(plans)))

\* for loc in keys: for (p, _pg) in listing.get(loc, []): all_plans.append(p)
RECURSIVE flatten_names(_, _)
flatten_names(keys, listing) ==
  IF keys = <<>> THEN <<>>
  ELSE LET plans == DictGet(listing, Head(keys)) IN
       [i \in 1..Len(plans) |-> plans[i].plan] \o flatten_names(Tail(keys), listing)

\* for loc in keys: selected[loc] = listing.get(loc, [])[:n]
RECURSIVE select_first(_, _, _, _)
select_first(keys, listing, n, sel) ==
  IF keys = <<>> THEN sel
  ELSE select_first(Tail(keys), listing, n,
                    DictSet(sel, Head(keys), Take(DictGet(listing, Head(keys)), n)))

\* The loop of All Plans keeping one entry per LOC.
select_all_first_entry(keys, listing, sel) == select_first(keys, listing, 1, sel)

\* for loc in keys: selected[loc] = listing.get(loc, [])
RECURSIVE select_all(_, _, _)
select_all(keys, listing, sel) ==
  IF keys = <<>> THEN sel
  ELSE select_all(Tail(keys), listing,
                  DictSet(sel, Head(keys), DictGet(listing, Head(keys))))

\* The search loops without the outer "if loc in selected: break".
RECURSIVE select_match_every_loc(_, _, _)
select_match_every_loc(keys, listing, name) ==
  IF keys = <<>> THEN <<>>
  ELSE LET plans == DictGet(listing, Head(keys))
           hits == {i \in 1..Len(plans) : Strip(plans[i].plan) = Strip(name)}
       IN (IF hits # {}
           THEN <<[loc |-> Head(keys),
                   plans |-> <<plans[CHOOSE i \in hits : \A j \in hits : i <= j]>>]>>
           ELSE <<>>)
          \o select_match_every_loc(Tail(keys), listing, name)

\* The search loops (lines 124-130, 230-236, 278-284): the first LOC of keys, and
\* in it the first entry, whose stripped plan name equals the stripped match.
RECURSIVE select_match(_, _, _)
select_match(keys, listing, name) ==
  IF keys = <<>> THEN <<>>
  ELSE LET plans == DictGet(listing, Head(keys))
           hits == {i \in 1..Len(plans) : Strip(plans[i].plan) = Strip(name)}
       IN IF hits # {}
          THEN <<[loc |-> Head(keys),
                  plans |-> <<plans[CHOOSE i \in hits : \A j \in hits : i <= j]>>]>>
          ELSE select_match(Tail(keys), listing, name)

\* The matcher called without the "if all_plans else" guard of lines 116, 214.
MatchOutcomes_always_calls(plan_names) == semantic_match_plan_name(plan_names)

\* The matcher as a caller uses it: "NA" without a call over an empty list.
MatchOutcomes(plan_names) ==
  IF plan_names = <<>> THEN {Returned("NA", FALSE)}
  ELSE semantic_match_plan_name(plan_names)

\* Option narrowing (lines 102-142)
PreliminarySelection ==
  /\ pc = "prelim"
  /\ CASE option = "Auto-Read" ->
            /\ selected' = select_first(locs, plan_listing, AutoReadLimit, <<>>)
            /\ pc' = "kp"
            /\ UNCHANGED <<need_pid_search, matches, calls, response, error>>
       [] option = "Search" ->
            \E r \in MatchOutcomes(flatten_names(locs, plan_listing)) :
              /\ calls' = Called(r, "semantic_match")
              /\ IF r.raised
                 THEN Raise(r.error) /\ UNCHANGED <<selected, need_pid_search, matches>>
                 ELSE /\ matches' = IF r.called THEN Append(matches, r.text) ELSE matches
                      /\ selected' = IF r.text # "NA"
                                     THEN select_match(locs, plan_listing, r.text)
                                     ELSE <<>>
                      /\ need_pid_search' = (r.text = "NA")
                      /\ pc' = "kp"
                      /\ UNCHANGED <<response, error>>
       [] option = "All Plans" ->
            /\ selected' = select_all(locs, plan_listing, <<>>)
            /\ pc' = "kp"
            /\ UNCHANGED <<need_pid_search, matches, calls, response, error>>
       [] OTHER ->
            Raise("ValueError") /\ UNCHANGED <<selected, need_pid_search, matches, calls>>
  /\ UNCHANGED <<serviceVars, inputVars, token_count, classifyVars, kpVars, pidVars, poolVars>>

\* ------------------------------------------------------------ key parameters

\* One turn of the per-LOC loop (lines 146-147)
KeyParamExtraction ==
  /\ pc = "kp"
  /\ kp_i <= Len(locs)
  /\ \E r \in run_key_param_extractor(locs[kp_i]) :
       /\ calls' = Called(r, "key_params")
       /\ IF r.raised
          THEN Raise(r.error) /\ UNCHANGED <<key_param_outputs, kp_i>>
          ELSE /\ key_param_outputs' = DictSet(key_param_outputs, locs[kp_i], r.text)
               /\ kp_i' = kp_i + 1
               /\ UNCHANGED <<pc, response, error>>
  /\ UNCHANGED <<serviceVars, inputVars, token_count, classifyVars, selected, need_pid_search,
                 matches, step7_joined, pidVars, poolVars>>

\* [key_param_outputs[loc] for loc in selected.keys() if key_param_outputs[loc]]
RECURSIVE join_key_params(_, _)
join_key_params(keys, outputs) ==
  IF keys = <<>> THEN <<>>
  ELSE LET t == outputs[CHOOSE i \in 1..Len(outputs) : outputs[i].loc = Head(keys)].plans IN
       (IF t # "" THEN <<t>> ELSE <<>>) \o join_key_params(Tail(keys), outputs)

\* The join taken once the first LOC has its output, the other LOCs' calls
\* still to come.
JoinKeyParams_early ==
  /\ pc = "kp"
  /\ kp_i > Min(1, Len(locs))
  /\ step7_joined' =
       join_key_params(SelectSeq(DictKeys(selected),
                                 LAMBDA k : DictHas(key_param_outputs, k)),
                       key_param_outputs)
  /\ pc' = "pid"
  /\ UNCHANGED <<serviceVars, inputVars, token_count, classifyVars, selected, need_pid_search,
                 matches, key_param_outputs, kp_i, pidVars, poolVars, response,
                 error, calls>>

\* After the loop: step7_joined (lines 149-151)
JoinKeyParams ==
  /\ pc = "kp"
  /\ kp_i > Len(locs)
  /\ step7_joined' = join_key_params(DictKeys(selected), key_param_outputs)
  /\ pc' = "pid"
  /\ UNCHANGED <<serviceVars, inputVars, token_count, classifyVars, selected, need_pid_search,
                 matches, key_param_outputs, kp_i, pidVars, poolVars, response,
                 error, calls>>

\* -------------------------------------------------------- plan identification

\* for L, items in listing_loc.items(): pid_listing.setdefault(L, []).extend(items)
RECURSIVE merge_listing(_, _)
merge_listing(listing, listing_loc) ==
  IF listing_loc = <<>> THEN listing
  ELSE merge_listing(DictExtend(listing, Head(listing_loc).loc, Head(listing_loc).plans),
                     Tail(listing_loc))

\* The stage with the single-shot call of lines 175-178 taken for every option.
PlanIdentStep_single_shot(outcomes) ==
  /\ pc = "pid"
  /\ pid_locs' = Append(pid_locs, parse_line_of_coverage(classification_out))
  /\ \E r \in outcomes :
       /\ calls' = Called(r, "plan_identification")
       /\ IF r.raised
          THEN Raise(r.error) /\ UNCHANGED <<plan_id_output, pid_listing, pid_i>>
          ELSE /\ plan_id_output' = r.text
               /\ pid_listing' = parse_plan_listing(r.text)
               /\ pc' = "final"
               /\ UNCHANGED <<pid_i, response, error>>
  /\ UNCHANGED <<serviceVars, inputVars, token_count, classifyVars, selected, need_pid_search,
                 matches, kpVars, poolVars>>

\* The calls of run_plan_identification (lines 153-179), for a stage whose
\* outcomes are `outcomes`: one call per LOC for Auto-Read, one call otherwise.
PlanIdentStep(outcomes) ==
  /\ pc = "pid"
  /\ IF option = "Auto-Read"
     THEN /\ pid_i <= Len(locs)
          /\ pid_locs' = Append(pid_locs, <<locs[pid_i]>>)
          /\ \E r \in outcomes :
               /\ calls' = Called(r, "plan_identification")
               /\ IF r.raised
                  THEN Raise(r.error) /\ UNCHANGED <<plan_id_output, pid_listing, pid_i>>
                  ELSE /\ plan_id_output' =
                            plan_id_output \o <<HeaderLine(locs[pid_i])>> \o r.text
                       /\ pid_listing' = merge_listing(pid_listing, parse_plan_listing(r.text))
                       /\ pid_i' = pid_i + 1
                       /\ UNCHANGED <<pc, response, error>>
     ELSE /\ pid_locs' = Append(pid_locs, parse_line_of_coverage(classification_out))
          /\ \E r \in outcomes :
               /\ calls' = Called(r, "plan_identification")
               /\ IF r.raised
                  THEN Raise(r.error) /\ UNCHANGED <<plan_id_output, pid_listing, pid_i>>
                  ELSE /\ plan_id_output' = r.text
                       /\ pid_listing' = parse_plan_listing(r.text)
                       /\ pc' = "final"
                       /\ UNCHANGED <<pid_i, response, error>>
  /\ UNCHANGED <<serviceVars, inputVars, token_count, classifyVars, selected, need_pid_search,
                 matches, kpVars, poolVars>>

\* The stage as plan_identification.py defines it.
PlanIdentification == PlanIdentStep(run_plan_identification)

\* The stage when its chat call is answered.
PlanIdentificationAnswered == PlanIdentStep(plan_identification_answers)

\* Auto-Read, after the per-LOC loop: "\n\n".join(pid_outputs) (line 172)
JoinPlanIdOutputs ==
  /\ pc = "pid"
  /\ option = "Auto-Read"
  /\ pid_i > Len(locs)
  /\ pc' = "final"
  /\ UNCHANGED <<serviceVars, inputVars, token_count, classifyVars, selected, need_pid_search,
                 matches, kpVars, pidVars, poolVars, response, error, calls>>

\* ------------------------------------------------------------ final selection

\* Python's order of the LOC strings (code points).
LocSortOrder ==
  <<"Dental", "LTD", "LifeADD", "Medical", "Pet", "STD", "VA", "VCI", "VHI", "VL",
    "VLTD", "VSTD", "Vision">>

\* sorted(S) for a set of LOC strings
RECURSIVE SortedFrom(_, _)
SortedFrom(order, S) ==
  IF order = <<>> THEN <<>>
  ELSE (IF Head(order) \in S THEN <<Head(order)>> ELSE <<>>) \o SortedFrom(Tail(order), S)

sorted(S) == SortedFrom(LocSortOrder, S)

\* The inner loop without its "if len(combined) >= 4: break".
RECURSIVE combine_unbounded(_, _, _)
combine_unbounded(entries, seen, combined) ==
  IF entries = <<>> THEN combined
  ELSE LET key == Strip(Head(entries).plan) IN
       IF key \in seen
       THEN combine_unbounded(Tail(entries), seen, combined)
       ELSE combine_unbounded(Tail(entries), seen \cup {key}, Append(combined, Head(entries)))

\* The inner loop of the Auto-Read merge (lines 190-197): first occurrences by
\* stripped plan name, until the list holds the limit.
RECURSIVE combine(_, _, _)
combine(entries, seen, combined) ==
  IF entries = <<>> \/ Len(combined) >= AutoReadLimit THEN combined
  ELSE LET key == Strip(Head(entries).plan) IN
       IF key \in seen
       THEN combine(Tail(entries), seen, combined)
       ELSE combine(Tail(entries), seen \cup {key}, Append(combined, Head(entries)))

\* The merge with each LOC's plan-id entries ahead of its classifier entries.
RECURSIVE merge_selected_pid_first(_, _, _, _)
merge_selected_pid_first(keys, clf_listing, listing, sel) ==
  IF keys = <<>> THEN sel
  ELSE merge_selected_pid_first(Tail(keys), clf_listing, listing,
         DictSet(sel, Head(keys),
                 combine(DictGet(listing, Head(keys)) \o DictGet(clf_listing, Head(keys)),
                         {}, <<>>)))

\* The Auto-Read merge (lines 183-201)
RECURSIVE merge_selected(_, _, _, _)
merge_selected(keys, clf_listing, listing, sel) ==
  IF keys = <<>> THEN sel
  ELSE merge_selected(Tail(keys), clf_listing, listing,
         DictSet(sel, Head(keys),
                 combine(DictGet(clf_listing, Head(keys)) \o DictGet(listing, Head(keys)),
                         {}, <<>>)))

NoCall == Returned("", FALSE)

\* The merge of Auto-Read and the deferred retry of Search (lines 181-236)
FinalSelection ==
  /\ pc = "final"
  /\ CASE option = "Auto-Read" ->
            /\ selected' = merge_selected(sorted(Range(locs) \cup Range(DictKeys(pid_listing))),
                                          plan_listing, pid_listing, <<>>)
            /\ pc' = "recovery"
            /\ UNCHANGED <<pid_listing, matches, calls, response, error>>
       [] option = "Search" /\ need_pid_search ->
            LET listing == parse_plan_listing(plan_id_output) IN
            \E r \in MatchOutcomes(flatten_names(DictKeys(listing), listing)) :
              /\ calls' = Called(r, "semantic_match")
              /\ pid_listing' = listing
              /\ IF r.raised
                 THEN Raise(r.error) /\ UNCHANGED <<selected, matches>>
                 ELSE /\ matches' = IF r.called THEN Append(matches, r.text) ELSE matches
                      /\ IF r.text = "NA"
                         THEN /\ Return(NotFoundMessage(search_plan_name), classification_out,
                                        step7_joined, plan_id_output, <<>>)
                              /\ UNCHANGED selected
                         ELSE /\ selected' = select_match(DictKeys(listing), listing, r.text)
                              /\ pc' = "recovery"
                              /\ UNCHANGED <<response, error>>
       [] OTHER ->
            /\ pc' = "recovery"
            /\ UNCHANGED <<selected, pid_listing, matches, calls, response, error>>
  /\ UNCHANGED <<serviceVars, inputVars, token_count, classifyVars, need_pid_search, kpVars,
                 plan_id_output, pid_i, pid_locs, poolVars>>

\* The rebuild of an empty selection from the plan-id listing (lines 242-287)
RecoveryRebuild ==
  /\ pc = "recovery"
  /\ LET listing == parse_plan_listing(plan_id_output)
         pid_count == count_selected(listing)
         locs_pid == DictKeys(listing)
         rebuild == count_selected(selected) = 0 /\ pid_count > 0
     IN
     /\ pid_listing' = IF count_selected(selected) = 0 THEN listing ELSE pid_listing
     /\ \E r \in (IF rebuild /\ option = "Search"
                  THEN semantic_match_plan_name(flatten_names(locs_pid, listing))
                  ELSE {NoCall}) :
          /\ calls' = Called(r, "semantic_match")
          /\ IF r.raised
             THEN Raise(r.error) /\ UNCHANGED <<selected, matches>>
             ELSE /\ matches' = IF r.called THEN Append(matches, r.text) ELSE matches
                  /\ IF rebuild /\ option = "Search" /\ r.text = "NA"
                     THEN /\ Return(NotFoundMessage(search_plan_name), classification_out,
                                    step7_joined, plan_id_output, <<>>)
                          /\ UNCHANGED selected
                     ELSE /\ selected' =
                               CASE ~rebuild -> selected
                                 [] option = "Auto-Read" ->
                                      select_first(locs_pid, listing, AutoReadLimit, <<>>)
                                 [] option = "Search" ->
                                      select_match(locs_pid, listing, r.text)
                                 [] option = "All Plans" ->
                                      select_all(locs_pid, listing, <<>>)
                                 [] OTHER -> <<>>
                          /\ pc' = "fanout"
                          /\ UNCHANGED <<response, error>>
  /\ UNCHANGED <<serviceVars, inputVars, token_count, classifyVars, need_pid_search, kpVars,
                 plan_id_output, pid_i, pid_locs, poolVars>>

\* --------------------------------------------------------------------- fan-out

\* PROMPT_MAP of per_plan_extraction.py: the deployment of each LOC.
PROMPT_MAP ==
  [loc \in KnownLocs |->
     CASE loc = "Medical" -> "medical-unified-refiner-v-5-0-variant-1"
       [] loc = "Dental" -> "dental-unified-refiner-v-3-0-variant-1"
       [] loc = "Vision" -> "vision-unified-refiner-v-3-0-variant-1"
       [] loc = "LifeADD" -> "life-add-life-add-unified-refiner-v-2-0-variant-1"
       [] loc = "STD" -> "std-unified-refiner-v-3-0-variant-1"
       [] loc = "LTD" -> "ltd-unified-refiner-v-3-0-variant-1"
       [] loc = "VL" -> "vol-life-and-add-generic-unified-refiner-reducto-v-7-0-variant-1"
       [] loc = "VSTD" -> "vol-std-generic-unified-refiner-reducto-v-8-0-variant-1"
       [] loc = "VLTD" -> "vol-ltd-generic-unified-refiner-reducto-v-8-0-variant-1"
       [] loc = "VA" -> "vol-accident-generic-unified-refiner-reducto-v-7-0-variant-1"
       [] loc = "VHI" -> "vol-hospital-indemnity-generic-unified-refiner-reducto-v-7-0-variant-1"
       [] OTHER -> "vol-critical-illness-generic-unified-refiner-reducto-v-7-0-variant-1"]

\* PROMPT_MAP.get(loc): no deployment for a LOC that is not a key.
per_plan_slug_no_default(loc) ==
  IF loc \in DOMAIN PROMPT_MAP THEN PROMPT_MAP[loc] ELSE "None"

\* slug = PROMPT_MAP.get(loc, PROMPT_MAP["Medical"])
per_plan_slug(loc) ==
  IF loc \in DOMAIN PROMPT_MAP THEN PROMPT_MAP[loc] ELSE PROMPT_MAP["Medical"]

\* run_per_plan_extraction: fetch the LOC's template (Medical's for a LOC that
\* PROMPT_MAP lacks), one chat call, the text returned as it is.
run_per_plan_extraction(loc) ==
  {Returned(t, TRUE) : t \in PerPlanOutputs}
    \cup {Raised("UpstreamError", FALSE, ""), Raised("UpstreamError", TRUE, "")}

\* The submit loop over plans[1:] in place of plans.
RECURSIVE submissions_skip_first(_)
submissions_skip_first(sel) ==
  IF sel = <<>> THEN <<>>
  ELSE [i \in 1..(Len(Head(sel).plans) - 1) |->
          [loc |-> Head(sel).loc,
           plan_name |-> Head(sel).plans[i + 1].plan,
           pages |-> Head(sel).plans[i + 1].pages]]
       \o submissions_skip_first(Tail(sel))

\* for loc, plans in selected.items(): for (plan, pages) in plans: submit(...)
RECURSIVE submissions(_)
submissions(sel) ==
  IF sel = <<>> THEN <<>>
  ELSE [i \in 1..Len(Head(sel).plans) |->
          [loc |-> Head(sel).loc,
           plan_name |-> Head(sel).plans[i].plan,
           pages |-> Head(sel).plans[i].pages]]
       \o submissions(Tail(sel))

Futures == 1..Len(futs)
Running == {i \in Futures : status[i].st = "running"}
Queued == {i \in Futures : status[i].st = "queued"}

\* The pool and the submit loop (lines 297-304): every entry of the selection
\* is queued on a ThreadPoolExecutor.
FanOutSubmit ==
  /\ pc = "fanout"
  /\ futs' = submissions(selected)
  /\ status' = [i \in 1..Len(submissions(selected)) |-> [st |-> "queued", output |-> "", slug |-> ""]]
  /\ pc' = "collect"
  /\ UNCHANGED <<serviceVars, inputVars, token_count, classifyVars, selected, need_pid_search,
                 matches, kpVars, pidVars, response, error, calls>>

\* A pool that starts a thread for every queued item.
worker_available_unbounded(running) == TRUE

\* ThreadPoolExecutor(max_workers=8): a queued item is taken only by one of
\* at most max_workers threads, each running one item at a time.
worker_available(running) == Cardinality(running) < max_workers

\* A worker thread takes the oldest queued item and enters process_one.
WorkerStart ==
  /\ pc \in {"collect", "leaving"}
  /\ Queued # {}
  /\ worker_available(Running)
  /\ LET i == CHOOSE q \in Queued : \A j \in Queued : q <= j IN
     status' = [status EXCEPT ![i].st = "running"]
  /\ UNCHANGED <<pc, serviceVars, inputVars, token_count, classifyVars, selected, need_pid_search,
                 matches, kpVars, pidVars, futs, response, error, calls>>

\* process_one returns, or raises what run_per_plan_extraction raised.
WorkerFinish ==
  /\ pc \in {"collect", "leaving"}
  /\ \E i \in Running :
       \E r \in run_per_plan_extraction(futs[i].loc) :
         /\ calls' = Called(r, "per_plan")
         /\ status' = [status EXCEPT ![i] =
                         [st |-> IF r.raised THEN "failed" ELSE "ok", output |-> r.text,
                          slug |-> per_plan_slug(futs[i].loc)]]
  /\ UNCHANGED <<pc, serviceVars, inputVars, token_count, classifyVars, selected, need_pid_search,
                 matches, kpVars, pidVars, futs, response, error>>

Failed == {i \in Futures : status[i].st = "failed"}

\* "for fut in as_completed(futs): results.append(fut.result())" meets a future
\* whose call raised: fut.result() raises it again inside the with block.  The
\* appends of the loop touch only the local list, and are taken at its end.
CollectResult ==
  /\ pc = "collect"
  /\ Failed # {}
  /\ pc' = "leaving"
  /\ error' = "UpstreamError"
  /\ UNCHANGED <<serviceVars, inputVars, token_count, classifyVars, selected, need_pid_search,
                 matches, kpVars, pidVars, poolVars, response, calls>>

\* "results = [fut.result()]" in place of the append: one item is kept.
plan_items_one(collected) ==
  [i \in collected \cap {1} |->
     [loc |-> futs[i].loc, plan_name |-> futs[i].plan_name, output |-> status[i].output]]

\* {"loc": loc, "plan_name": plan_name, "output": raw_output} per appended result
plan_items(collected) ==
  [i \in collected |->
     [loc |-> futs[i].loc, plan_name |-> futs[i].plan_name, output |-> status[i].output]]

\* An exit that does not wait for the submitted items.
shutdown_returns_nowait(queued, running) == TRUE

\* The with block's exit is shutdown(wait=True) with no cancellation: it
\* returns once no submitted item is queued or running.
shutdown_returns(queued, running) == queued = {} /\ running = {}

\* The end of the with block: the pending exception leaves run_pipeline, or,
\* every future having yielded its result, the dict is returned (lines 305-318).
LeavePool ==
  /\ \/ pc = "leaving"
     \/ pc = "collect" /\ Failed = {}
  /\ shutdown_returns(Queued, Running)
  /\ IF pc = "leaving"
     THEN pc' = "raised" /\ UNCHANGED <<response, error>>
     ELSE Return("OK", classification_out, step7_joined, plan_id_output,
                 plan_items(Futures))
  /\ UNCHANGED <<serviceVars, inputVars, token_count, classifyVars, selected, need_pid_search,
                 matches, kpVars, pidVars, poolVars, calls>>

\* -------------------------------------------------------------- specifications

\* run_pipeline with every stage as the source defines it.  The steps of the
\* worker threads and the failing fut.result() are not listed: every call of
\* run_plan_identification raises, so the selection that reaches the fan-out is
\* empty in every run (see FanOutHasNothingToRun) and none of them is ever
\* enabled.
Next ==
  \/ Normalize
  \/ TokenGuard
  \/ Classification
  \/ PreliminarySelection
  \/ KeyParamExtraction
  \/ JoinKeyParams
  \/ PlanIdentification
  \/ JoinPlanIdOutputs
  \/ FinalSelection
  \/ RecoveryRebuild
  \/ FanOutSubmit
  \/ LeavePool

Spec == Init /\ [][Next]_vars

\* In runs of Spec the worker steps are never enabled.
FanOutHasNothingToRun == futs = <<>> /\ (pc = "fanout" => count_selected(selected) = 0)

\* The stages of run_pipeline up to the submission of the fan-out, over a
\* plan-identification stage whose chat call is answered: what lines 153-304
\* do with each text the stage can return.
NextSelection ==
  \/ Normalize
  \/ TokenGuard
  \/ Classification
  \/ PreliminarySelection
  \/ KeyParamExtraction
  \/ JoinKeyParams
  \/ PlanIdentificationAnswered
  \/ JoinPlanIdOutputs
  \/ FinalSelection
  \/ RecoveryRebuild
  \/ FanOutSubmit

SpecSelection == Init /\ [][NextSelection]_vars

\* A Search request, over the answered plan-identification stage, to its end.
InitSearch == Init /\ option = "Search"

NextSearch ==
  \/ Normalize
  \/ TokenGuard
  \/ Classification
  \/ PreliminarySelection
  \/ KeyParamExtraction
  \/ JoinKeyParams
  \/ PlanIdentificationAnswered
  \/ FinalSelection
  \/ RecoveryRebuild
  \/ FanOutSubmit
  \/ WorkerStart
  \/ WorkerFinish
  \/ CollectResult
  \/ LeavePool

SpecSearch == InitSearch /\ [][NextSearch]_vars

\* The fan-out on its own, entered with the selection that lines 98-287 build
\* for a document whose plan-identification output adds no plan.
FanOutPlanNames ==
  <<"Plan A", "Plan B", "Plan C", "Plan D", "Plan E", "Plan F",
    "Plan G", "Plan H", "Plan I", "Plan J", "Plan K", "Plan L">>

\* The first n plan lines of a LOC.
LocLines(loc, n) == [i \in 1..n |-> PlanLine(loc, FanOutPlanNames[i], <<i>>)]

\* Requests and classification outputs that lead to selections of 0, 2, 4 + 2
\* and MaxTasks entries, and to one of 1 + 2 entries whose second LOC has no
\* template mapping.
FanOutRuns ==
  { [option |-> "All Plans", second |-> " Dental", medical |-> 0, other |-> 0],
    [option |-> "All Plans", second |-> " Dental", medical |-> 1, other |-> 1],
    [option |-> "Auto-Read", second |-> " Dental", medical |-> 6, other |-> 2],
    [option |-> "All Plans", second |-> " Dental", medical |-> MaxTasks, other |-> 0],
    [option |-> "All Plans", second |-> "Pet", medical |-> 1, other |-> 2] }

InitFanOut ==
  \E run \in FanOutRuns :
    LET text == [doc_type |-> "Benefit Summary",
                 loc_parts |-> <<"Medical", run.second>>,
                 items |-> LocLines("Medical", run.medical)
                             \o LocLines(Strip(run.second), run.other)]
        the_locs == parse_line_of_coverage(text)
        listing == parse_plan_listing(text.items)
        kp_out == [i \in 1..Len(the_locs) |->
                     [loc |-> the_locs[i],
                      plans |-> IF the_locs[i] \in KnownLocs
                                THEN "KP " \o the_locs[i] ELSE ""]]
    IN
    /\ pc = "fanout"
    /\ input_ext = "pdf"
    /\ option = run.option
    /\ search_plan_name = ""
    /\ token_count = TOKEN_HARD_LIMIT
    /\ classification_out = text
    /\ locs = the_locs
    /\ plan_listing = listing
    /\ selected = IF run.option = "Auto-Read"
                  THEN merge_selected(sorted(Range(the_locs)), listing, <<>>, <<>>)
                  ELSE select_all(the_locs, listing, <<>>)
    /\ need_pid_search = FALSE
    /\ matches = <<>>
    /\ key_param_outputs = kp_out
    /\ kp_i = Len(the_locs) + 1
    /\ step7_joined = join_key_params(the_locs, kp_out)
    /\ plan_id_output = IF run.option = "Auto-Read"
                        THEN [i \in 1..Len(the_locs) |-> HeaderLine(the_locs[i])]
                        ELSE <<>>
    /\ pid_listing = <<>>
    /\ pid_i = IF run.option = "Auto-Read" THEN Len(the_locs) + 1 ELSE 1
    /\ pid_locs = IF run.option = "Auto-Read"
                  THEN [i \in 1..Len(the_locs) |-> <<the_locs[i]>>]
                  ELSE <<the_locs>>
    /\ futs = <<>>
    /\ status = <<>>
    /\ response = NoResponse
    /\ error = ""
    /\ calls = <<"classification">>
                 \o [i \in 1..Len(SelectSeq(the_locs, LAMBDA l : l \in KnownLocs)) |->
                       "key_params"]
                 \o (IF run.option = "Auto-Read"
                     THEN [i \in 1..Len(the_locs) |-> "plan_identification"]
                     ELSE <<"plan_identification">>)
    /\ ServicesIdle

NextFanOut ==
  \/ FanOutSubmit
  \/ WorkerStart
  \/ WorkerFinish
  \/ CollectResult
  \/ LeavePool

SpecFanOut == InitFanOut /\ [][NextFanOut]_vars

\* ------------------------------------------------------------------- texts

\* A prompt, a document or a message part is a sequence of tokens: line
\* breaks, blanks, tags, slots and stretches of other characters.  A tag pair
\* such as <Document></Document> is its opening tag followed by its closing
\* tag, so two texts are the same string exactly when they are the same
\* sequence.
Whitespace == {"\r\n", "\n", " "}

\* Longest document, in tokens.
MaxDocLen == 3
\* Chat calls of one run of the stage runners.
MaxChatCalls == 2

Reverse(t) == [i \in 1..Len(t) |-> t[Len(t) + 1 - i]]

RECURSIVE lstrip(_)
lstrip(t) == IF t # <<>> /\ Head(t) \in Whitespace THEN lstrip(Tail(t)) ELSE t

\* str.strip() that removes nothing.
strip_nothing(t) == t

\* str.strip() of a text.
strip(t) == Reverse(lstrip(Reverse(lstrip(t))))

\* str.find: the first position of pat in t, 0 if there is none.
Find(t, pat) ==
  LET at == {i \in 1..(Len(t) - Len(pat) + 1) : SubSeq(t, i, i + Len(pat) - 1) = pat}
  IN IF at = {} THEN 0 ELSE CHOOSE i \in at : \A j \in at : i <= j

\* str.replace(pat, rep, 1)
ReplaceFirst(t, pat, rep) ==
  LET i == Find(t, pat)
  IN IF i = 0 THEN t
     ELSE SubSeq(t, 1, i - 1) \o rep \o SubSeq(t, i + Len(pat), Len(t))

\* str.replace(pat, rep): every occurrence, left to right, without rescanning.
RECURSIVE ReplaceAll(_, _, _)
ReplaceAll(t, pat, rep) ==
  LET i == Find(t, pat)
  IN IF i = 0 THEN t
     ELSE SubSeq(t, 1, i - 1) \o rep
            \o ReplaceAll(SubSeq(t, i + Len(pat), Len(t)), pat, rep)

\* sep.join(parts)
RECURSIVE Join(_, _)
Join(parts, sep) ==
  IF parts = <<>> THEN <<>>
  ELSE IF Len(parts) = 1 THEN Head(parts)
  ELSE Head(parts) \o sep \o Join(Tail(parts), sep)

DocumentSlot == <<"<Document>", "</Document>">>
PlanNameListSlot == <<"<Plan_Name_List>", "</Plan_Name_List>">>
PlanNameListSlotSpaced == <<"<Plan Name List>", "</Plan Name List>">>
ClassificationSlot == <<"<Classification Output>", "</Classification Output>">>
KeyParameterSlot == <<"<Key Parameter Output>", "</Key Parameter Output>">>
PlanNameSlots ==
  << <<"{{plan_name}}">>, <<"{{PLAN_NAME}}">>,
     <<"<PlanName>", "</PlanName>">>, <<"<Plan Name>", "</Plan Name>">> >>

\* Documents: line breaks of both kinds around and between stretches of text.
DocTokens == {"\r\n", "\n", "HMO Gold"}
Markdowns == SeqsUpTo(DocTokens, MaxDocLen)

\* Templates the prompt store may hold for a deployment (never empty, see
\* vellum.get_prompt): without a slot, with the document slot, the document
\* slot alone, and with every slot a stage runner fills.
Templates ==
  { <<"Extract the plans.">>,
    <<"Extract the plans.", "\n", "<Document>", "</Document>">>,
    <<"<Document>", "</Document>">>,
    <<"<Plan_Name_List>", "</Plan_Name_List>", "<Classification Output>",
      "</Classification Output>", "{{LOC}}", "{{plan_name}}", "<Document>",
      "</Document>">> }

\* ------------------------------------------------------- message composition

DefaultSystemText == <<"You are a precise benefits-document extraction assistant.">>
PlanIdentSystemText ==
  <<"You are a precise, deterministic parser. Output only <index>::Plans::<LOC>::<Plan Name>::$0.00::<page_ref> lines.">>

TextPart(t) == [type |-> "text", text |-> t, cache_control |-> "none"]

_canonical_doc(md) ==
  strip([i \in 1..Len(md) |-> IF md[i] = "\r\n" THEN "\n" ELSE md[i]])

build_cachable_doc_part(md, enable_cache) ==
  [type |-> "text",
   text |-> <<"<Document>", "\n">> \o _canonical_doc(md) \o <<"\n", "</Document>">>,
   cache_control |-> IF enable_cache THEN "ephemeral" ELSE "none"]

\* The part of a text, as a list of zero or one parts: none for a blank text.
_maybe_text_part(t) ==
  IF strip(t) = <<>> THEN <<>> ELSE <<TextPart(strip(t))>>

\* The loop with every extra text appended as it is given.
RECURSIVE extra_parts_unfiltered(_)
extra_parts_unfiltered(extra_user_texts) ==
  IF extra_user_texts = <<>> THEN <<>>
  ELSE <<TextPart(Head(extra_user_texts))>> \o extra_parts_unfiltered(Tail(extra_user_texts))

\* for txt in extra_user_texts: the part of txt, if it has one
RECURSIVE extra_parts(_)
extra_parts(extra_user_texts) ==
  IF extra_user_texts = <<>> THEN <<>>
  ELSE _maybe_text_part(Head(extra_user_texts)) \o extra_parts(Tail(extra_user_texts))

\* The stage runners pass no extra_user_texts: the list is empty for them.
compose_messages_with_document(template, document_md, enable_cache, system_text, extra_user_texts) ==
  LET template_no_slot == ReplaceAll(template, DocumentSlot, <<>>)
      doc_part == build_cachable_doc_part(document_md, enable_cache)
      system_part == IF _maybe_text_part(system_text) = <<>>
                     THEN <<TextPart(<<>>)>> ELSE _maybe_text_part(system_text)
  IN << [role |-> "system", content |-> system_part],
        [role |-> "user",
         content |-> _maybe_text_part(template_no_slot) \o <<doc_part>>
                       \o extra_parts(extra_user_texts)] >>

\* llm.run_prompt_with_context: the messages it hands to chat_completion.
run_prompt_with_context(context_markdown, prompt_text, cache) ==
  << [role |-> "system", content |-> <<TextPart(DefaultSystemText)>>],
     [role |-> "user",
      content |-> <<TextPart(prompt_text),
                    build_cachable_doc_part(context_markdown, cache)>>] >>

classification_messages(prompt, md, cache) ==
  compose_messages_with_document(prompt, md, cache, DefaultSystemText, <<>>)

\* plan_list_text of run_key_param_extractor for the names of the LOC.
PlanNameSortOrder == <<"EPO", "HMO Gold">>

PlanListText(plan_names) ==
  LET names == {Strip(p) : p \in Range(plan_names)} \ {""}
      ordered == SortedFrom(PlanNameSortOrder, names)
  IN Join([i \in 1..Len(ordered) |-> <<ordered[i]>>], <<"\n">>)

key_params_messages(prompt, md, plan_names_for_loc, cache) ==
  LET text == PlanListText(plan_names_for_loc)
      once == IF plan_names_for_loc # <<>>
              THEN ReplaceFirst(prompt, PlanNameListSlot,
                                <<"<Plan_Name_List>">> \o text \o <<"</Plan_Name_List>">>)
              ELSE prompt
      twice == IF plan_names_for_loc # <<>>
               THEN ReplaceFirst(once, PlanNameListSlotSpaced,
                                 <<"<Plan Name List>">> \o text \o <<"</Plan Name List>">>)
               ELSE once
  IN compose_messages_with_document(twice, md, cache, DefaultSystemText, <<>>)

plan_identification_messages(prompt, md, classification_output, step7_output, loc_names, cache) ==
  LET a == ReplaceFirst(prompt, ClassificationSlot,
                        <<"<Classification Output>">> \o classification_output
                          \o <<"</Classification Output>">>)
      b == ReplaceFirst(a, KeyParameterSlot,
                        <<"<Key Parameter Output>">> \o step7_output
                          \o <<"</Key Parameter Output>">>)
      c == ReplaceAll(b, <<"{{LOC}}">>, Join([i \in 1..Len(loc_names) |-> <<loc_names[i]>>], <<", ">>))
  IN compose_messages_with_document(c, md, cache, PlanIdentSystemText, <<>>)

_inject_tag_once(prompt, open_tag, close_tag, content) ==
  ReplaceFirst(prompt, <<open_tag, close_tag>>, <<open_tag>> \o content \o <<close_tag>>)

\* The first plan-name slot the prompt has is filled, wherever it occurs.
FillPlanName(prompt, plan_name) ==
  LET found == {i \in 1..Len(PlanNameSlots) : Find(prompt, PlanNameSlots[i]) # 0}
      first == CHOOSE i \in found : \A j \in found : i <= j
  IN IF found = {} THEN prompt
     ELSE IF first <= 2 THEN ReplaceAll(prompt, PlanNameSlots[first], <<plan_name>>)
     ELSE ReplaceAll(prompt, PlanNameSlots[first],
                     <<"<PlanName>", plan_name, "</PlanName>">>)

per_plan_messages(prompt, md, plan_name, cache) ==
  LET used_prompt == FillPlanName(_inject_tag_once(prompt, "<Document>", "</Document>", md),
                                  plan_name)
  IN run_prompt_with_context(md, used_prompt, cache)

\* semantic_match_plan_name: the list of names is given as the context document.
semantic_match_messages(plan_names, plan_name) ==
  LET plan_names_norm == [i \in 1..Len(plan_names) |-> norm(plan_names[i])]
      prompt == <<"Given this list ">> \o plan_names_norm
                  \o <<". Question: Is ", norm(plan_name), " in the list?">>
  IN run_prompt_with_context(Join([i \in 1..Len(plan_names_norm) |-> <<plan_names_norm[i]>>],
                                  <<"\n">>),
                             prompt, TRUE)

\* run_pipeline before its first step, for the specifications of the services.
PipelineIdle ==
  /\ pc = "start"
  /\ input_ext = "pdf"
  /\ option = "Auto-Read"
  /\ search_plan_name = ""
  /\ token_count = 0
  /\ classification_out = NoText
  /\ locs = <<>>
  /\ plan_listing = <<>>
  /\ selected = <<>>
  /\ need_pid_search = FALSE
  /\ matches = <<>>
  /\ key_param_outputs = <<>>
  /\ kp_i = 1
  /\ step7_joined = <<>>
  /\ plan_id_output = <<>>
  /\ pid_listing = <<>>
  /\ pid_i = 1
  /\ pid_locs = <<>>
  /\ futs = <<>>
  /\ status = <<>>
  /\ response = NoResponse
  /\ error = ""
  /\ calls = <<>>

pipelineVars ==
  <<pc, input_ext, option, search_plan_name, token_count, classification_out,
    locs, plan_listing, selected, need_pid_search, matches, key_param_outputs,
    kp_i, step7_joined, plan_id_output, pid_listing, pid_i, pid_locs, futs, status,
    response, error, calls>>

\* A stage runner hands its messages to llm.chat_completion; sent tells whether
\* the call was accepted, that is, whether the request was posted.
LogChatCall(stage, template, messages, sent) ==
  /\ Len(chat_log) < MaxChatCalls
  /\ chat_log' = Append(chat_log, [stage |-> stage, template |-> template,
                                   messages |-> messages, sent |-> sent])
  /\ UNCHANGED <<markdown_text, composed, prompt_cache, pipelineVars, serverVars, promptVars,
                 parseVars>>

\* run_pipeline calls run_classification(markdown) (line 81): the cache
\* argument is the default of classification.py:9, whatever prompt_cache is.
ClassificationCall ==
  \E prompt \in Templates :
    LogChatCall("classification", prompt,
                classification_messages(prompt, markdown_text, TRUE), TRUE)

SemanticMatchCall ==
  \E plan_names \in {<<"HMO Gold">>, <<"HMO Gold", "EPO">>} :
    LogChatCall("semantic_match", <<>>,
                semantic_match_messages(plan_names, "hmo gold"), TRUE)

KeyParamsCall ==
  \E prompt \in Templates, plan_names \in {<<>>, <<"HMO Gold", " ", "EPO">>} :
    LogChatCall("key_params", prompt,
                key_params_messages(prompt, markdown_text, plan_names, prompt_cache), TRUE)

\* The keywords of line 51 decide whether the call is accepted.
PlanIdentificationCall ==
  \E prompt \in Templates :
    LogChatCall("plan_identification", prompt,
                plan_identification_messages(prompt, markdown_text,
                                             <<"Basic Info::Line of Coverage::[Medical]">>,
                                             <<"KP Medical">>, <<"Medical", "Dental">>,
                                             prompt_cache),
                PlanIdentKeywords \subseteq ChatCompletionParams)

PerPlanCall ==
  \E prompt \in Templates :
    LogChatCall("per_plan", prompt,
                per_plan_messages(prompt, markdown_text, "HMO Gold", prompt_cache), TRUE)

\* The stage runners called with one document and any templates of the store.
InitCompose ==
  /\ PipelineIdle
  /\ ServerIdle
  /\ PromptsIdle
  /\ ParseIdle
  /\ markdown_text \in Markdowns
  /\ chat_log = <<>>
  /\ composed = NotComposed
  /\ prompt_cache \in BOOLEAN

NextCompose ==
  \/ ClassificationCall
  \/ SemanticMatchCall
  \/ KeyParamsCall
  \/ PlanIdentificationCall
  \/ PerPlanCall

SpecCompose == InitCompose /\ [][NextCompose]_vars

\* Arguments of a call of compose_messages_with_document: the templates of
\* the store and templates that are blank or hold the document slot twice;
\* the system texts of the stage runners and blank ones; extra texts, blank
\* or not.
MaxExtras == 2

ComposerTemplates ==
  Templates \cup { <<>>, <<" ">>,
                   <<"<Document>", "</Document>", " ", "<Document>", "</Document>">>,
                   <<"<Document>", "</Document>", "Extract the plans.", "<Document>",
                     "</Document>", "\n">> }

SystemTexts == {DefaultSystemText, PlanIdentSystemText, <<>>, <<" ">>}

ExtraTexts == { <<>>, <<" ">>, <<"Note A">>, <<" ", "Note B", "\n">> }

\* compose_messages_with_document called on the document with any arguments.
ComposeCall ==
  /\ ~composed.called
  /\ \E template \in ComposerTemplates, enable_cache \in BOOLEAN,
        system_text \in SystemTexts, extra_user_texts \in SeqsUpTo(ExtraTexts, MaxExtras) :
       composed' =
         [called |-> TRUE, template |-> template, system_text |-> system_text,
          extra_user_texts |-> extra_user_texts, enable_cache |-> enable_cache,
          messages |-> compose_messages_with_document(template, markdown_text, enable_cache,
                                                      system_text, extra_user_texts)]
  /\ UNCHANGED <<markdown_text, chat_log, prompt_cache, pipelineVars, serverVars, promptVars,
                 parseVars>>

NextComposer == ComposeCall

SpecComposer == InitCompose /\ [][NextComposer]_vars

\* ------------------------------------------------------------ HTTP handlers

\* Requests handled by one process.
MaxRequests == 2
RequestIds == 1..MaxRequests

\* plan_name as the form delivers it: None when the field is missing.
NoneValue == "<None>"

\* not (plan_name and plan_name.strip())
blank(plan_name) == plan_name = NoneValue \/ plan_name = "" \/ Strip(plan_name) = ""

\* The requests that reach a handler: its dependencies (the login check) and
\* the form validation have passed.
RequestForms ==
  [endpoint : {"/v1/process", "/v1/process_async"},
   option : {"Search"},
   plan_name : {NoneValue, "", " ", "hmo gold"}]
    \cup [endpoint : {"/v1/process", "/v1/process_async"},
          option : {"Auto-Read"},
          plan_name : {NoneValue}]

\* How a call of run_pipeline ends: it returns its dict, or an exception
\* leaves it (an HTTPException of the prompt store, or any other).
PipelineOutcomes ==
  { [raised |-> FALSE, error |-> "", out |-> "OK"],
    [raised |-> TRUE, error |-> "HTTPException", out |-> ""],
    [raised |-> TRUE, error |-> "TypeError", out |-> ""] }

\* dict assignment: JOBS[rid] = entry
SetJob(jobs, rid, entry) ==
  [x \in DOMAIN jobs \cup {rid} |-> IF x = rid THEN entry ELSE jobs[x]]

Answer(r, code) == http_responses' = [http_responses EXCEPT ![r] = code]

\* The check of lines 138-139 and 171-172.
rejects_blank_search_never(form) == FALSE
rejects_blank_search(form) == form.option = "Search" /\ blank(form.plan_name)

\* POST /v1/process: the handler from its first line to its answer.  It runs
\* on the event loop without awaiting, so nothing of the application
\* interleaves with it.
ProcessDocument(r) ==
  /\ http_requests[r].endpoint = "/v1/process"
  /\ http_responses[r] = 0
  /\ IF rejects_blank_search(http_requests[r])
     THEN Answer(r, 422) /\ UNCHANGED <<tmp_files, pipeline_calls>>
     ELSE \E saved \in BOOLEAN :
            IF ~saved
            THEN Answer(r, 500) /\ UNCHANGED <<tmp_files, pipeline_calls>>
            ELSE /\ tmp_files' = tmp_files \cup {r}
                 /\ pipeline_calls' = pipeline_calls \cup {r}
                 /\ \E o \in PipelineOutcomes :
                      Answer(r, IF ~o.raised THEN 200
                                ELSE IF o.error = "HTTPException" THEN 502 ELSE 500)
  /\ UNCHANGED <<http_requests, JOBS, tasks, last_poll, composeVars, promptVars, parseVars, pipelineVars>>

\* POST /v1/process_async: the handler; the task it adds runs after the answer.
\* When save_upload_to_tmp raises, the exception leaves the handler (answer
\* 500) after the entry was registered and before the task is added.
ProcessDocumentAsync(r) ==
  /\ http_requests[r].endpoint = "/v1/process_async"
  /\ http_responses[r] = 0
  /\ IF rejects_blank_search(http_requests[r])
     THEN Answer(r, 422) /\ UNCHANGED <<JOBS, tmp_files, tasks>>
     ELSE /\ JOBS' = SetJob(JOBS, r, [status |-> "queued"])
          /\ \E saved \in BOOLEAN :
               IF ~saved
               THEN Answer(r, 500) /\ UNCHANGED <<tmp_files, tasks>>
               ELSE /\ tmp_files' = tmp_files \cup {r}
                    /\ tasks' = [tasks EXCEPT ![r] = "added"]
                    /\ Answer(r, 202)
  /\ UNCHANGED <<http_requests, pipeline_calls, last_poll, composeVars, promptVars, parseVars, pipelineVars>>

\* A task added by the handler is run once, after the answer was sent.
task_runnable_again(r) == tasks[r] \in {"added", "finished"}
task_runnable(r) == tasks[r] = "added"

\* _work, first statement (line 182), in a worker thread.
WorkStart(r) ==
  /\ task_runnable(r)
  /\ tasks' = [tasks EXCEPT ![r] = "running"]
  /\ JOBS' = SetJob(JOBS, r, [status |-> "running"])
  /\ UNCHANGED <<http_requests, http_responses, tmp_files, pipeline_calls, last_poll,
                 composeVars, promptVars, parseVars, pipelineVars>>

\* _work, the call of run_pipeline and what follows it (lines 183-196).
WorkFinish(r) ==
  /\ tasks[r] = "running"
  /\ tasks' = [tasks EXCEPT ![r] = "finished"]
  /\ pipeline_calls' = pipeline_calls \cup {r}
  /\ \E o \in PipelineOutcomes :
       JOBS' = SetJob(JOBS, r, IF o.raised
                               THEN [status |-> "error", error |-> o.error]
                               ELSE [status |-> "done", result |-> o.out])
  /\ UNCHANGED <<http_requests, http_responses, tmp_files, last_poll,
                 composeVars, promptVars, parseVars, pipelineVars>>

\* GET /v1/jobs/{rid}
GetJobStatus(rid) ==
  /\ last_poll' = IF rid \in DOMAIN JOBS
                  THEN [rid |-> rid, code |-> 200, body |-> JOBS[rid]]
                  ELSE [rid |-> rid, code |-> 404, body |-> <<>>]
  /\ UNCHANGED <<http_requests, http_responses, JOBS, tmp_files, pipeline_calls, tasks,
                 composeVars, promptVars, parseVars, pipelineVars>>

InitServer ==
  /\ PipelineIdle
  /\ ComposeIdle
  /\ PromptsIdle
  /\ ParseIdle
  /\ http_requests \in [RequestIds -> RequestForms]
  /\ http_responses = [r \in RequestIds |-> 0]
  /\ JOBS = <<>>
  /\ tmp_files = {}
  /\ pipeline_calls = {}
  /\ tasks = [r \in RequestIds |-> "none"]
  /\ last_poll = [rid |-> 0, code |-> 0, body |-> <<>>]

NextServer ==
  \E r \in RequestIds :
    \/ ProcessDocument(r)
    \/ ProcessDocumentAsync(r)
    \/ WorkStart(r)
    \/ WorkFinish(r)
    \/ GetJobStatus(r)

SpecServer == InitServer /\ [][NextServer]_vars

\* The same application when every handler that was entered answers and every
\* task that was added is run to its end: each external call returns or fails.
SpecServerFair ==
  /\ SpecServer
  /\ \A r \in RequestIds :
       /\ WF_vars(ProcessDocument(r))
       /\ WF_vars(ProcessDocumentAsync(r))
       /\ WF_vars(WorkStart(r))
       /\ WF_vars(WorkFinish(r))

\* -------------------------------------------------------------- prompt store

\* Threads that call get_prompt (the workers of the fan-out among them).
MaxGetters == 3
GetterIds == 1..MaxGetters

\* Deployments the stage runners ask for (PROMPT_MAP of two LOCs).
Slugs == {"medical-unified-refiner-v-5-0-variant-1", "dental-unified-refiner-v-3-0-variant-1"}

\* Texts a deployment may hold, the second after it was redeployed.
TemplateTexts == <<"template v1", "template v2">>

\* key = f"{slug_or_deployment}:{version or 'latest'}"
CacheKey(slug, version) == slug \o ":" \o (IF version = NoneValue THEN "latest" ELSE version)

\* dict.get: the cached text, "" when the key is absent.
CacheGet(cache, key) == IF key \in DOMAIN cache THEN cache[key] ELSE ""

Getter(pc_, slug, remote, result) ==
  [pc |-> pc_, slug |-> slug, remote |-> remote, result |-> result]

\* get_prompt, lines 95-98: the key is built and the cache is read; a cached
\* text is returned at once.  The stage runners pass no version.
GetPromptRead(t) ==
  /\ getters[t].pc = "idle"
  /\ \E slug \in Slugs :
       LET cached == CacheGet(_PROMPT_CACHE, CacheKey(slug, NoneValue))
       IN getters' = [getters EXCEPT ![t] =
                        IF cached # "" THEN Getter("returned", slug, "", cached)
                        ELSE Getter("fetching", slug, "", "")]
  /\ UNCHANGED <<_PROMPT_CACHE, vellum_store, fetches, vellum_fetch>>
  /\ UNCHANGED <<pipelineVars, composeVars, serverVars, parseVars>>

\* get_prompt, line 99: get_prompt_from_vellum answers with the text deployed
\* at present, or raises (HTTPException 502).
GetPromptFetch(t) ==
  /\ getters[t].pc = "fetching"
  /\ \E ok \in BOOLEAN :
       IF ok
       THEN /\ getters' = [getters EXCEPT ![t].pc = "fetched",
                                          ![t].remote = vellum_store[getters[t].slug]]
            /\ fetches' = [fetches EXCEPT ![CacheKey(getters[t].slug, NoneValue)] = @ + 1]
       ELSE /\ getters' = [getters EXCEPT ![t].pc = "raised"]
            /\ UNCHANGED fetches
  /\ UNCHANGED <<_PROMPT_CACHE, vellum_store, vellum_fetch>>
  /\ UNCHANGED <<pipelineVars, composeVars, serverVars, parseVars>>

\* get_prompt, lines 102-103: the text is stored under the key and returned.
GetPromptStore(t) ==
  /\ getters[t].pc = "fetched"
  /\ LET key == CacheKey(getters[t].slug, NoneValue)
     IN _PROMPT_CACHE' = [k \in DOMAIN _PROMPT_CACHE \cup {key} |->
                            IF k = key THEN getters[t].remote ELSE _PROMPT_CACHE[k]]
  /\ getters' = [getters EXCEPT ![t].pc = "returned", ![t].result = getters[t].remote]
  /\ UNCHANGED <<vellum_store, fetches, vellum_fetch>>
  /\ UNCHANGED <<pipelineVars, composeVars, serverVars, parseVars>>

\* The deployment of a slug is replaced in the store.
Redeploy(slug) ==
  /\ vellum_store[slug] = TemplateTexts[1]
  /\ vellum_store' = [vellum_store EXCEPT ![slug] = TemplateTexts[2]]
  /\ UNCHANGED <<_PROMPT_CACHE, getters, fetches, vellum_fetch>>
  /\ UNCHANGED <<pipelineVars, composeVars, serverVars, parseVars>>

InitPrompts ==
  /\ PipelineIdle
  /\ ComposeIdle
  /\ ServerIdle
  /\ ParseIdle
  /\ _PROMPT_CACHE = <<>>
  /\ vellum_store = [slug \in Slugs |-> TemplateTexts[1]]
  /\ getters = [t \in GetterIds |-> Getter("idle", "", "", "")]
  /\ fetches = [key \in {CacheKey(slug, NoneValue) : slug \in Slugs} |-> 0]
  /\ vellum_fetch = NoFetch

NextPrompts ==
  \/ \E t \in GetterIds : GetPromptRead(t)
  \/ \E t \in GetterIds : GetPromptFetch(t)
  \/ \E t \in GetterIds : GetPromptStore(t)
  \/ \E slug \in Slugs : Redeploy(slug)

SpecPrompts == InitPrompts /\ [][NextPrompts]_vars

\* One call of get_prompt after another, each with the answers the store
\* gives to its POSTs.
MaxFetchCalls == 2

\* What a POST to the store may meet: the request fails, or a response with
\* a status and a body that has, or lacks, a text part; a 2xx body may hold
\* the text under one of the fallback keys instead.
StoreAnswers ==
  {StoreAnswer("network", 0, FALSE, FALSE)}
    \cup {StoreAnswer("response", code, has_text, FALSE) :
            code \in {200, 400, 404, 500}, has_text \in BOOLEAN}
    \cup {StoreAnswer("response", 200, FALSE, TRUE)}

\* The JSON body of the first POST (line 44) and of the retry (lines 57-58).
PostBody(deployment_name) == [deployment_name |-> deployment_name, inputs |-> <<>>]
RetryBody(deployment_name) ==
  [deployment_name |-> deployment_name,
   inputs |-> <<[type |-> "STRING", name |-> "document", value |-> ""]>>]

FetchResult(posts, raised, code, text) ==
  [posts |-> posts, raised |-> raised, code |-> code, text |-> text]

\* The fetch with the retry taken after every non-2xx answer.
get_prompt_from_vellum_retry_any(deployment_name, api_key, first, second, deployed) ==
  LET post == PostBody(deployment_name)
      retry == RetryBody(deployment_name)
  IN IF ~api_key THEN FetchResult(<<>>, TRUE, 500, "")
     ELSE IF first.kind = "network" THEN FetchResult(<<post>>, TRUE, 502, "")
     ELSE IF first.status_code >= 300
     THEN IF second.kind = "response" /\ second.status_code \in 200..299 /\ second.has_text
          THEN FetchResult(<<post, retry>>, FALSE, 0, deployed)
          ELSE FetchResult(<<post, retry>>, TRUE, 502, "")
     ELSE IF first.has_text \/ first.has_fallback
          THEN FetchResult(<<post>>, FALSE, 0, deployed)
          ELSE FetchResult(<<post>>, TRUE, 502, "")

\* get_prompt_from_vellum (lines 32-89): its POSTs and its outcome, for the
\* answers the store gives to the first POST and to the retry; deployed is
\* the text of the deployment.
get_prompt_from_vellum(deployment_name, api_key, first, second, deployed) ==
  LET post == PostBody(deployment_name)
      retry == RetryBody(deployment_name)
  IN IF ~api_key THEN FetchResult(<<>>, TRUE, 500, "")
     ELSE IF first.kind = "network" THEN FetchResult(<<post>>, TRUE, 502, "")
     ELSE IF first.status_code >= 300
     THEN IF first.status_code = 400
          THEN IF second.kind = "response" /\ second.status_code \in 200..299
                    /\ second.has_text
               THEN FetchResult(<<post, retry>>, FALSE, 0, deployed)
               ELSE FetchResult(<<post, retry>>, TRUE, 502, "")
          ELSE FetchResult(<<post>>, TRUE, 502, "")
     ELSE IF first.has_text \/ first.has_fallback
          THEN FetchResult(<<post>>, FALSE, 0, deployed)
          ELSE FetchResult(<<post>>, TRUE, 502, "")

\* get_prompt (lines 91-103), from its first line to its return or raise.
GetPromptCall ==
  /\ vellum_fetch.n < MaxFetchCalls
  /\ \E slug \in Slugs, api_key \in BOOLEAN, first \in StoreAnswers, second \in StoreAnswers :
       LET key == CacheKey(slug, NoneValue)
           cached == CacheGet(_PROMPT_CACHE, key)
           remote == get_prompt_from_vellum(slug, api_key, first, second, vellum_store[slug])
       IN IF cached # ""
          THEN /\ vellum_fetch' = [n |-> vellum_fetch.n + 1, slug |-> slug, api_key |-> api_key,
                                   first |-> NoAnswer, second |-> NoAnswer, posts |-> <<>>,
                                   raised |-> FALSE, code |-> 0, text |-> cached]
               /\ UNCHANGED _PROMPT_CACHE
          ELSE /\ vellum_fetch' =
                    [n |-> vellum_fetch.n + 1, slug |-> slug, api_key |-> api_key,
                     first |-> IF Len(remote.posts) >= 1 THEN first ELSE NoAnswer,
                     second |-> IF Len(remote.posts) >= 2 THEN second ELSE NoAnswer,
                     posts |-> remote.posts, raised |-> remote.raised,
                     code |-> remote.code, text |-> remote.text]
               /\ _PROMPT_CACHE' =
                    IF remote.raised THEN _PROMPT_CACHE
                    ELSE [k \in DOMAIN _PROMPT_CACHE \cup {key} |->
                            IF k = key THEN remote.text ELSE _PROMPT_CACHE[k]]
  /\ UNCHANGED <<vellum_store, getters, fetches>>
  /\ UNCHANGED <<pipelineVars, composeVars, serverVars, parseVars>>

NextFetch == GetPromptCall

SpecFetch == InitPrompts /\ [][NextFetch]_vars

\* ------------------------------------------------------- parsers on texts

\* The parsers of utils/parse.py on texts given as token sequences: "::",
\* brackets, commas, blanks and line breaks are tokens of their own, a run of
\* digits is one token, and so is any other stretch without ":" in it.

\* Longest list of LOC tags that is formatted and parsed back.
MaxLocList == 3

\* Prefixes that LOC_RE accepts up to the opening bracket (IGNORECASE).
LocHeaders ==
  {"Basic Info::Line of Coverage::[", "Basic Info::LOC_Temp::[",
   "basic info::line of coverage::["}

\* The characters of a stretch of tokens, as one string.
RECURSIVE Concat(_)
Concat(t) == IF t = <<>> THEN "" ELSE Head(t) \o Concat(Tail(t))

\* The first position from i on whose token is in S, Len(text) + 1 if none.
FirstIn(text, i, S) ==
  LET at == {j \in i..Len(text) : text[j] \in S}
  IN IF at = {} THEN Len(text) + 1 ELSE CHOOSE j \in at : \A k \in at : j <= k

\* LOC_RE.search: the group between the first accepted prefix and the first
\* "]" after it (".*?" with DOTALL).
LOC_RE_search(text) ==
  LET starts == {i \in 1..Len(text) :
                   text[i] \in LocHeaders /\ FirstIn(text, i + 1, {"]"}) <= Len(text)}
      i == CHOOSE k \in starts : \A j \in starts : k <= j
  IN IF starts = {} THEN [matched |-> FALSE, group |-> <<>>]
     ELSE [matched |-> TRUE, group |-> SubSeq(text, i + 1, FirstIn(text, i + 1, {"]"}) - 1)]

\* str.split(sep)
RECURSIVE split(_, _)
split(t, sep) ==
  LET i == Find(t, <<sep>>)
  IN IF i = 0 THEN <<t>>
     ELSE <<SubSeq(t, 1, i - 1)>> \o split(SubSeq(t, i + 1, Len(t)), sep)

\* parse_line_of_coverage on a text.
parse_line_of_coverage_text(text) ==
  IF text = <<>> THEN <<>>
  ELSE LET m == LOC_RE_search(text)
           raw == split(m.group, ",")
           parts == [i \in 1..Len(raw) |-> Concat(strip(raw[i]))]
       IN IF ~m.matched THEN <<>>
          ELSE SelectSeq(parts, LAMBDA q : q # "" /\ Lower(q) # "other")

\* The text 'Basic Info::Line of Coverage::[x1, x2, ...]' of a list of tags.
format_line_of_coverage(xs) ==
  <<"Basic Info::Line of Coverage::[">>
    \o Join([i \in 1..Len(xs) |-> <<xs[i]>>], <<",", " ">>) \o <<"]">>

FormatLoc ==
  /\ rt_pc = "start"
  /\ rt_text' = format_line_of_coverage(rt_input)
  /\ rt_pc' = "formatted"
  /\ UNCHANGED <<rt_input, rt_parsed, rt_reparsed>>
  /\ UNCHANGED <<pipelineVars, composeVars, serverVars, promptVars>>

ParseLoc ==
  /\ rt_pc = "formatted"
  /\ rt_parsed' = parse_line_of_coverage_text(rt_text)
  /\ rt_pc' = "parsed"
  /\ UNCHANGED <<rt_input, rt_text, rt_reparsed>>
  /\ UNCHANGED <<pipelineVars, composeVars, serverVars, promptVars>>

\* Every list of tags of the closed set, up to the bound.
InitLocRoundTrip ==
  /\ PipelineIdle
  /\ ComposeIdle
  /\ ServerIdle
  /\ PromptsIdle
  /\ rt_pc = "start"
  /\ rt_input \in SeqsUpTo(KnownLocs, MaxLocList)
  /\ rt_text = <<>>
  /\ rt_parsed = <<>>
  /\ rt_reparsed = <<>>

NextLocRoundTrip == FormatLoc \/ ParseLoc

SpecLocRoundTrip == InitLocRoundTrip /\ [][NextLocRoundTrip]_vars

\* Plan lines of the text that is parsed first.
MaxListingLines == 2

\* Runs of digits, and what int() and str() make of them.
DigitTokens == {"1", "2", "12"}
IntOf(tok) == CASE tok = "1" -> 1 [] tok = "2" -> 2 [] tok = "12" -> 12
StrOf(n) == CASE n = 1 -> "1" [] n = 2 -> "2" [] n = 12 -> "12"

\* Stretches that start as PLAN_RE's rate does: an optional "$" and a digit.
RateTokens == {"$0.00"}

\* \s* from position i on: the first position whose token is not whitespace.
SkipSpace(text, i) ==
  LET at == {j \in i..Len(text) : text[j] \notin Whitespace}
  IN IF at = {} THEN Len(text) + 1 ELSE CHOOSE j \in at : \A k \in at : j <= k

NoMatch == [ok |-> FALSE, loc |-> <<>>, plan |-> <<>>, pages |-> <<>>, end |-> 0]

\* PLAN_RE matched at position i.  idx, "::", "Plans", "::"; loc and plan are
\* the stretches up to the next "::" and the one after it, each at least one
\* character and each followed by "::"; the rate, if a stretch that starts
\* like one follows, runs on to the next "::" or "["; the page block needs a
\* "::" of its own before its "[".  The pattern is not tied to lines.
PLAN_RE_match(text, i) ==
  LET b == SkipSpace(text, i + 1)
      c == SkipSpace(text, b + 1)
      d == SkipSpace(text, c + 1)
      q1 == FirstIn(text, d + 1, {"::"})
      q2 == FirstIn(text, q1 + 1, {"::"})
      ok == /\ i <= Len(text) /\ text[i] \in DigitTokens
            /\ b <= Len(text) /\ text[b] = "::"
            /\ c <= Len(text) /\ text[c] \in {"Plans", "plans"}
            /\ d <= Len(text) /\ text[d] = "::"
            /\ q1 <= Len(text) /\ q1 > d + 1
            /\ q2 <= Len(text) /\ q2 > q1 + 1
      r0 == SkipSpace(text, q2 + 1)
      has_rate == r0 <= Len(text) /\ text[r0] \in RateTokens \cup DigitTokens
      e == IF has_rate THEN FirstIn(text, r0 + 1, {"::", "["}) ELSE r0
      sp == SkipSpace(text, e)
      t == SkipSpace(text, sp + 1)
      u == FirstIn(text, t + 1, {"]"})
      has_pages == /\ sp <= Len(text) /\ text[sp] = "::"
                   /\ t <= Len(text) /\ text[t] = "["
                   /\ u <= Len(text)
  IN IF ~ok THEN NoMatch
     ELSE [ok |-> TRUE,
           loc |-> SubSeq(text, d + 1, q1 - 1),
           plan |-> SubSeq(text, q1 + 1, q2 - 1),
           pages |-> IF has_pages THEN SubSeq(text, t + 1, u - 1) ELSE <<>>,
           end |-> IF has_pages THEN u + 1 ELSE e]

\* PLAN_RE.finditer: the matches from left to right, none overlapping.
RECURSIVE PLAN_RE_finditer(_, _)
PLAN_RE_finditer(text, pos) ==
  LET starts == {i \in pos..Len(text) : PLAN_RE_match(text, i).ok}
      i == CHOOSE k \in starts : \A j \in starts : k <= j
  IN IF starts = {} THEN <<>>
     ELSE <<PLAN_RE_match(text, i)>> \o PLAN_RE_finditer(text, PLAN_RE_match(text, i).end)

\* The loop of parse_plan_listing over the matches.
RECURSIVE CollectMatches(_, _)
CollectMatches(ms, out) ==
  IF ms = <<>> THEN out
  ELSE LET m == Head(ms)
           loc == Concat(strip(m.loc))
           plan == Concat(strip(m.plan))
           digits == SelectSeq(m.pages, LAMBDA tok : tok \in DigitTokens)
           pages == [k \in 1..Len(digits) |-> IntOf(digits[k])]
       IN IF loc # "" /\ plan # ""
          THEN CollectMatches(Tail(ms), DictExtend(out, loc, <<[plan |-> plan, pages |-> pages]>>))
          ELSE CollectMatches(Tail(ms), out)

\* parse_plan_listing on a text.
parse_plan_listing_text(text) ==
  IF text = <<>> THEN <<>> ELSE CollectMatches(PLAN_RE_finditer(text, 1), <<>>)

\* The entries of a mapping in order, each with its LOC.
RECURSIVE FlatEntries(_)
FlatEntries(m) ==
  IF m = <<>> THEN <<>>
  ELSE [j \in 1..Len(Head(m).plans) |->
          [loc |-> Head(m).loc, plan |-> Head(m).plans[j].plan,
           pages |-> Head(m).plans[j].pages, first |-> j = 1]]
         \o FlatEntries(Tail(m))

\* One entry as a line '<index>::Plans::<LOC>::<Plan Name>::$rate::[pages]',
\* with or without the rate and the page block, after a '### <LOC>' header
\* line when headers are written and the entry is the first of its LOC.
emit_line(n, entry, with_rate, with_pages, headers) ==
  (IF headers /\ entry.first THEN <<"###", " ", entry.loc, "\n">> ELSE <<>>)
    \o <<StrOf(n), "::", "Plans", "::", entry.loc, "::", entry.plan>>
    \o (IF with_rate THEN <<"::", "$0.00">> ELSE <<>>)
    \o (IF with_pages
        THEN <<"::", "[">>
               \o Join([k \in 1..Len(entry.pages) |-> <<StrOf(entry.pages[k])>>], <<",", " ">>)
               \o <<"]">>
        ELSE <<>>)

emit_listing(m, with_rate, with_pages, headers) ==
  LET entries == FlatEntries(m)
  IN Join([n \in 1..Len(entries) |-> emit_line(n, entries[n], with_rate, with_pages, headers)],
          <<"\n">>)

\* Plan lines in the full form of the grammar, as a stage output holds them.
FullLines ==
  { <<"1", "::", "Plans", "::", "Medical", "::", "HMO Gold", "::", "$0.00", "::",
      "[", "1", ",", " ", "2", "]">>,
    <<"2", "::", "Plans", "::", "Medical", "::", "EPO", "::", "$0.00", "::", "[", "]">>,
    <<"1", "::", " ", "Plans", "::", "Dental", " ", "::", "DPPO", "::", "$0.00", "::",
      "[", "12", "]">> }

ParseListing ==
  /\ rt_pc = "listing"
  /\ rt_parsed' = parse_plan_listing_text(rt_input.text)
  /\ rt_pc' = "listing parsed"
  /\ UNCHANGED <<rt_input, rt_text, rt_reparsed>>
  /\ UNCHANGED <<pipelineVars, composeVars, serverVars, promptVars>>

EmitListing ==
  /\ rt_pc = "listing parsed"
  /\ rt_text' = emit_listing(rt_parsed, rt_input.with_rate, rt_input.with_pages,
                             rt_input.headers)
  /\ rt_pc' = "emitted"
  /\ UNCHANGED <<rt_input, rt_parsed, rt_reparsed>>
  /\ UNCHANGED <<pipelineVars, composeVars, serverVars, promptVars>>

ReparseListing ==
  /\ rt_pc = "emitted"
  /\ rt_reparsed' = parse_plan_listing_text(rt_text)
  /\ rt_pc' = "reparsed"
  /\ UNCHANGED <<rt_input, rt_text, rt_parsed>>
  /\ UNCHANGED <<pipelineVars, composeVars, serverVars, promptVars>>

\* Every text of up to MaxListingLines full lines, and every way to write its
\* mapping out again.
InitListingRoundTrip ==
  /\ PipelineIdle
  /\ ComposeIdle
  /\ ServerIdle
  /\ PromptsIdle
  /\ rt_pc = "listing"
  /\ \E lines \in SeqsUpTo(FullLines, MaxListingLines),
        with_rate \in BOOLEAN, with_pages \in BOOLEAN, headers \in BOOLEAN :
       rt_input = [text |-> Join(lines, <<"\n">>), with_rate |-> with_rate,
                   with_pages |-> with_pages, headers |-> headers]
  /\ rt_text = <<>>
  /\ rt_parsed = <<>>
  /\ rt_reparsed = <<>>

NextListingRoundTrip == ParseListing \/ EmitListing \/ ReparseListing

SpecListingRoundTrip == InitListingRoundTrip /\ [][NextListingRoundTrip]_vars

\* ------------------------------------------------------------------ properties

Ended == pc \in {"returned", "raised"}

\* Chat calls of a stage issued so far.
CallsOf(stage) == Cardinality({k \in 1..Len(calls) : calls[k] = stage})

\* The response's plans array as the set of its items' positions.
PlanItems == DOMAIN response.plans

\* C1: whenever the token count exceeds the hard limit, the run has returned
\* the token-overflow message with the three stage outputs empty and no plans,
\* and no chat call (classification or any other) has been issued.
C1_TokenOverflowStopsRun ==
  token_count > TOKEN_HARD_LIMIT =>
    /\ pc = "returned"
    /\ response = [message |-> OverflowMessage,
                   classification_output |-> NoText,
                   kp_extract_output |-> <<>>,
                   plan_name_identification_output |-> <<>>,
                   plans |-> <<>>]
    /\ calls = <<>>

C1_Witness ==
  /\ token_count > TOKEN_HARD_LIMIT
  /\ pc = "returned"
  /\ response.message = OverflowMessage

\* C2: whenever the classification output names the SBC document type, the run
\* has returned the SBC message with no plans and empty key-parameter and
\* plan-identification outputs, and the classification call is the only chat
\* call of the run, whatever the option.
C2_SBCShortCircuit ==
  classification_out.doc_type = "SBC" =>
    /\ pc = "returned"
    /\ response.message = SBCMessage
    /\ response.classification_output = classification_out
    /\ response.kp_extract_output = <<>>
    /\ response.plan_name_identification_output = <<>>
    /\ response.plans = <<>>
    /\ calls = <<"classification">>

C2_Witness ==
  /\ classification_out.doc_type = "SBC"
  /\ classification_out.items # <<>>
  /\ classification_out.loc_parts # <<>>
  /\ option = "Search"
  /\ response.message = SBCMessage

OfferedNames(loc) ==
  {Strip(e.plan) : e \in Range(DictGet(plan_listing, loc) \o DictGet(pid_listing, loc))}

Hits(keys, listing, name) ==
  {h \in (1..Len(keys)) \X (1..MaxClfLines + MaxPidLines + MaxTasks) :
     /\ h[2] <= Len(DictGet(listing, keys[h[1]]))
     /\ Strip(DictGet(listing, keys[h[1]])[h[2]].plan) = Strip(name)}

\* The run got past the token guard and the SBC check.
PastSBCCheck ==
  /\ token_count <= TOKEN_HARD_LIMIT
  /\ classification_out # NoText
  /\ classification_out.doc_type # "SBC"

\* C5: a Search run that got past the token guard and the SBC check, whose
\* selection holds no entry, and that has ended without an upstream failure,
\* has returned 'Plan "<name>" not found.' with no plans, and has launched no
\* extraction.
C5_SearchMissEndsNotFound ==
  (/\ option = "Search"
   /\ PastSBCCheck
   /\ Ended
   /\ error # "UpstreamError"
   /\ count_selected(selected) = 0)
  => /\ pc = "returned"
     /\ response.message = NotFoundMessage(search_plan_name)
     /\ response.plans = <<>>
     /\ futs = <<>>

\* A Search run never returns "OK" with no plans.
SearchNeverOKWithoutPlans ==
  ~(option = "Search" /\ pc = "returned" /\ response.message = "OK" /\ PlanItems = {})

\* The match over the classifier listing returned the stripped name of an entry
\* of the listing under a parsed LOC.
ClassifierHit ==
  /\ option = "Search"
  /\ matches # <<>>
  /\ ~need_pid_search
  /\ Hits(locs, plan_listing, matches[1]) # {}

\* C6: a Search run whose match over the classifier listing returned the name
\* of a classifier entry, and that has ended without an upstream failure, has
\* launched exactly one extraction, for the first such entry in parsed LOC
\* order, and has called the matcher once.
C6_ClassifierHitLaunchesOne ==
  (ClassifierHit /\ Ended /\ error # "UpstreamError")
  => /\ Len(futs) = 1
     /\ \E h \in Hits(locs, plan_listing, matches[1]) :
          /\ \A g \in Hits(locs, plan_listing, matches[1]) :
               h[1] < g[1] \/ (h[1] = g[1] /\ h[2] <= g[2])
          /\ futs[1].loc = locs[h[1]]
          /\ futs[1].plan_name = DictGet(plan_listing, locs[h[1]])[h[2]].plan
     /\ CallsOf("semantic_match") = 1

\* Matcher calls of the preliminary selection: none over an empty list.
FirstCalls == IF flatten_names(locs, plan_listing) = <<>> THEN 0 ELSE 1

\* The match over the classifier listing was "NA" and the retry over the
\* plan-id listing returned the stripped name of one of its entries.
RetryHit ==
  /\ option = "Search"
  /\ need_pid_search
  /\ pc \in {"recovery", "fanout", "collect", "leaving", "returned", "raised"}
  /\ Len(matches) = FirstCalls + 1
  /\ Hits(DictKeys(pid_listing), pid_listing, matches[Len(matches)]) # {}

RECURSIVE SelectionEntries(_)
SelectionEntries(sel) ==
  IF sel = <<>> THEN <<>>
  ELSE [i \in 1..Len(Head(sel).plans) |->
          [loc |-> Head(sel).loc, plan_name |-> Head(sel).plans[i].plan]]
       \o SelectionEntries(Tail(sel))

SentCalls == {k \in 1..Len(chat_log) : chat_log[k].sent}

\* The content parts of a message list, as <<message, part>> positions.
PartsOf(messages) ==
  UNION {{<<m, c>> : c \in 1..Len(messages[m].content)} : m \in 1..Len(messages)}

PartText(messages, pos) == messages[pos[1]].content[pos[2]].text

\* C11: every message list submitted to the chat endpoint, by whichever stage,
\* has exactly one content part whose full text is "<Document>\n", the
\* canonical document of the run, "\n</Document>".
C11_OneCanonicalDocumentPart ==
  \A k \in SentCalls :
    Cardinality({pos \in PartsOf(chat_log[k].messages) :
                   PartText(chat_log[k].messages, pos)
                     = <<"<Document>", "\n">> \o _canonical_doc(markdown_text)
                         \o <<"\n", "</Document>">>}) = 1

\* Occurrences of a token in a text.
Occurrences(t, token) == Cardinality({i \in 1..Len(t) : t[i] = token})

\* Opening document tags in all the parts of a message list.
DocumentTags(messages) ==
  SumSeq([m \in 1..Len(messages) |->
           SumSeq([c \in 1..Len(messages[m].content) |->
                    Occurrences(messages[m].content[c].text, "<Document>")])])

\* C12: when the template of a stage holds the placeholder
\* <Document></Document>, the submitted messages hold the document once: no
\* part keeps the placeholder and the document wrapper is opened once.
C12_PlaceholderNeverFilledTwice ==
  \A k \in SentCalls :
    Find(chat_log[k].template, <<"<Document>", "</Document>">>) # 0
      => /\ DocumentTags(chat_log[k].messages) = 1
         /\ \A pos \in PartsOf(chat_log[k].messages) :
              Find(PartText(chat_log[k].messages, pos), <<"<Document>", "</Document>">>) = 0

\* C13: a run whose classification output is not SBC and yields no LOC
\* launches no per-plan extraction, and when it ends without an upstream
\* failure it has returned message "OK" with no plans.
C13_ZeroLocsReturnOKWithoutPlans ==
  (PastSBCCheck /\ locs = <<>>)
  => /\ futs = <<>>
     /\ (Ended /\ error # "UpstreamError")
          => (pc = "returned" /\ response.message = "OK" /\ response.plans = <<>>)

\* With no LOC from the classification, no extraction is ever submitted.
ZeroLocsNeverLaunch == (PastSBCCheck /\ locs = <<>>) => futs = <<>>

\* A Search request whose plan_name is missing, empty or only whitespace.
BlankSearch(r) ==
  /\ http_requests[r].option = "Search"
  /\ http_requests[r].plan_name \in {NoneValue, "", " "}

\* C14: on both POST endpoints a Search request with a missing, empty or
\* whitespace-only plan_name is answered 422 and nothing else happens for it:
\* its upload is not written, run_pipeline is not invoked, no task is added
\* and the job registry gets no entry.
C14_BlankSearchRejectedBeforeAnyStage ==
  \A r \in DOMAIN http_requests :
    BlankSearch(r)
      => /\ http_responses[r] \in {0, 422}
         /\ r \notin tmp_files
         /\ r \notin pipeline_calls
         /\ r \notin DOMAIN JOBS
         /\ tasks[r] = "none"

C14_Witness ==
  \E a, b \in DOMAIN http_requests :
    /\ BlankSearch(a) /\ http_requests[a].endpoint = "/v1/process"
    /\ BlankSearch(b) /\ http_requests[b].endpoint = "/v1/process_async"
    /\ http_responses[a] = 422 /\ http_responses[b] = 422
    /\ JOBS = <<>> /\ tmp_files = {}

\* The status of a job id in a registry, "absent" when it has no entry.
StatusIn(jobs, rid) == IF rid \in DOMAIN jobs THEN jobs[rid].status ELSE "absent"

\* C15: in every step the entry of each job id stays as it is or moves
\* absent -> queued -> running -> done or running -> error; an entry that is
\* done or error is never written again; a done entry carries the result and
\* an error entry the error string.
C15_JobStatusMovesForwardOnly ==
  [][\A rid \in RequestIds :
       \/ /\ StatusIn(JOBS, rid) = StatusIn(JOBS', rid)
          /\ (rid \in DOMAIN JOBS => JOBS'[rid] = JOBS[rid])
       \/ /\ <<StatusIn(JOBS, rid), StatusIn(JOBS', rid)>>
               \in {<<"absent", "queued">>, <<"queued", "running">>,
                    <<"running", "done">>, <<"running", "error">>}
          /\ (StatusIn(JOBS', rid) = "done" => DOMAIN JOBS'[rid] = {"status", "result"})
          /\ (StatusIn(JOBS', rid) = "error"
                => DOMAIN JOBS'[rid] = {"status", "error"} /\ JOBS'[rid].error # "")]_vars

\* Two jobs ran concurrently, one ended done and one ended error, and a poll
\* saw a final entry.
C15_Witness ==
  \E a, b \in DOMAIN JOBS :
    /\ JOBS[a] = [status |-> "done", result |-> "OK"]
    /\ JOBS[b].status = "error"
    /\ last_poll.code = 200 /\ last_poll.body = JOBS[last_poll.rid]

\* C16: every job that has an entry in the registry eventually has status
\* done or error.
C16_RegisteredJobEventuallyEnds ==
  \A rid \in RequestIds :
    (rid \in DOMAIN JOBS) ~> (StatusIn(JOBS, rid) \in {"done", "error"})

\* C17: for each key the store is fetched successfully at most once: of the
\* calls of get_prompt for one key, however they interleave, at most one gets
\* a text from the store.
C17_AtMostOneFetchPerKey ==
  \A key \in DOMAIN fetches : fetches[key] <= 1

\* No call of get_prompt starts a fetch for a key the cache already holds.
NoFetchWhenCached ==
  \A t \in DOMAIN getters :
    getters[t].pc = "fetching"
      => CacheKey(getters[t].slug, NoneValue) \notin DOMAIN _PROMPT_CACHE

\* C18: once the cache holds a text for a key, no step replaces or removes
\* that entry, and a call of get_prompt for the key that returns in the step
\* returns that text.
C18_CacheEntryWrittenOnce ==
  [][\A key \in DOMAIN _PROMPT_CACHE :
       /\ key \in DOMAIN _PROMPT_CACHE'
       /\ _PROMPT_CACHE'[key] = _PROMPT_CACHE[key]
       /\ \A t \in DOMAIN getters :
            (/\ getters[t].pc # "returned"
             /\ getters'[t].pc = "returned"
             /\ CacheKey(getters'[t].slug, NoneValue) = key)
              => getters'[t].result = _PROMPT_CACHE[key]]_vars


\* C19: for every list xs of tags of the closed LOC set, the empty list and
\* lists with repeated tags included, parsing the text
\* 'Basic Info::Line of Coverage::[x1, x2, ...]' returns xs, in the same order.
C19_ParseInvertsFormat ==
  rt_pc = "parsed" => rt_parsed = rt_input

\* A list of three tags with one of them twice was formatted and parsed.
C19_Witness ==
  /\ rt_pc = "parsed"
  /\ Len(rt_input) = 3
  /\ rt_input[1] = rt_input[3]
  /\ rt_input[1] # rt_input[2]
  /\ rt_text[1] = "Basic Info::Line of Coverage::["
  /\ Len(rt_parsed) = 3

\* Two mappings with the same LOCs and plans in the same order, and the same
\* pages for each plan in whatever order.
SameListing(a, b) ==
  /\ Len(a) = Len(b)
  /\ \A k \in 1..Len(a) :
       /\ a[k].loc = b[k].loc
       /\ Len(a[k].plans) = Len(b[k].plans)
       /\ \A j \in 1..Len(a[k].plans) :
            /\ a[k].plans[j].plan = b[k].plans[j].plan
            /\ Len(a[k].plans[j].pages) = Len(b[k].plans[j].pages)
            /\ Range(a[k].plans[j].pages) = Range(b[k].plans[j].pages)

\* C20: writing the mapping parse_plan_listing returned as lines of the
\* grammar, with or without the rate, with or without the page block, with or
\* without '### <LOC>' headers between the lines, and parsing those lines
\* gives the same mapping up to the order of the pages.
C20_ReparseOfEmittedListing ==
  rt_pc = "reparsed" => SameListing(rt_reparsed, rt_parsed)

\* The same for lines written with both the rate and the page block.
FullLinesReparseSame ==
  (rt_pc = "reparsed" /\ rt_input.with_rate /\ rt_input.with_pages)
    => SameListing(rt_reparsed, rt_parsed)

\* Lines written with the rate and without the page block keep a mapping of
\* one plan.
RateOnlyKeepsSinglePlan ==
  (/\ rt_pc = "reparsed" /\ rt_input.with_rate /\ ~rt_input.with_pages
   /\ Len(FlatEntries(rt_parsed)) = 1 /\ FlatEntries(rt_parsed)[1].pages = <<>>)
    => SameListing(rt_reparsed, rt_parsed)

\* C21: POST /v1/process answers 200 when run_pipeline returned and 500 for
\* every failure raised inside the pipeline; a request whose pipeline was
\* called is never answered with another status code.
C21_PipelineFailureAnswers500 ==
  \A r \in RequestIds :
    (/\ http_requests[r].endpoint = "/v1/process"
     /\ r \in pipeline_calls
     /\ http_responses[r] # 0)
      => http_responses[r] \in {200, 500}

\* The entries of a list whose trimmed plan name no earlier entry carries.
RECURSIVE FirstOccurrences(_)
FirstOccurrences(entries) ==
  IF entries = <<>> THEN <<>>
  ELSE LET n == Len(entries)
           front == SubSeq(entries, 1, n - 1)
       IN IF \E j \in 1..(n - 1) : Strip(entries[j].plan) = Strip(entries[n].plan)
          THEN FirstOccurrences(front)
          ELSE Append(FirstOccurrences(front), entries[n])

AfterFinalSelection == pc \in {"recovery", "fanout", "collect"}

RecoveryStep == pc = "recovery" /\ pc' = "fanout"

RecoveryFires ==
  /\ count_selected(selected) = 0
  /\ count_selected(parse_plan_listing(plan_id_output)) > 0

\* The selection holds one LOC with one entry, an entry of the plan-id listing
\* whose trimmed name is the answer of the last matcher call.
SingleFreshMatch(sel, listing, answers) ==
  /\ Len(sel) = 1
  /\ Len(sel[1].plans) = 1
  /\ \E i \in 1..Len(DictGet(listing, sel[1].loc)) :
       DictGet(listing, sel[1].loc)[i] = sel[1].plans[1]
  /\ answers # <<>>
  /\ Strip(sel[1].plans[1].plan) = Strip(answers[Len(answers)])

\* What the rebuild leaves for Auto-Read and All Plans: the LOCs of the
\* plan-id listing in its order, each with its first n entries.
RebuiltFrom(sel, listing, n) ==
  /\ DictKeys(sel) = DictKeys(listing)
  /\ \A i \in 1..Len(sel) : sel[i].plans = Take(listing[i].plans, n)

RecoveryRebuildsUpToSearchMiss ==
  [][RecoveryStep =>
       LET listing == parse_plan_listing(plan_id_output) IN
       IF RecoveryFires
       THEN CASE option = "Auto-Read" -> RebuiltFrom(selected', listing, AutoReadLimit)
              [] option = "Search" ->
                   \/ SingleFreshMatch(selected', listing, matches')
                   \/ selected' = <<>> /\ matches' # <<>> /\ matches'[Len(matches')] # "NA"
              [] OTHER -> RebuiltFrom(selected', listing, MaxPidLines)
       ELSE selected' = selected]_vars

\* Index of the first occurrence of x in a sequence that holds it.
FirstIndex(s, x) == CHOOSE i \in 1..Len(s) : s[i] = x /\ \A j \in 1..(i - 1) : s[j] # x

ClassifierListsParsedLoc ==
  \E loc \in Range(locs) : DictGet(plan_listing, loc) # <<>>

AfterPreliminarySelection ==
  pc \in {"kp", "pid", "final", "recovery", "fanout", "collect"}

\* C25: for Auto-Read and All Plans, once the preliminary selection is made,
\* every LOC under which the classifier plan listing holds a plan is a key of
\* the selection, also a LOC that is not in the parsed Line-of-Coverage list.
C25_ListedLocsAreSelectionKeys ==
  (option \in {"Auto-Read", "All Plans"} /\ AfterPreliminarySelection) =>
     \A loc \in Range(DictKeys(plan_listing)) : DictHas(selected, loc)

RECURSIVE NonEmptyTexts(_)
NonEmptyTexts(d) ==
  IF d = <<>> THEN <<>>
  ELSE (IF Head(d).plans # "" THEN <<Head(d).plans>> ELSE <<>>) \o NonEmptyTexts(Tail(d))

\* The run returned a response built after Key-Parameter Extraction.
ReturnedAfterKeyParams ==
  /\ pc = "returned"
  /\ response.message \notin {OverflowMessage, SBCMessage}

PastPlanIdentification == pc \in {"final", "recovery", "fanout", "collect"}

\* The "### <LOC>" headers of a plan-identification output, in order.
RECURSIVE HeaderLocs(_)
HeaderLocs(items) ==
  IF items = <<>> THEN <<>>
  ELSE (IF Head(items).kind = "header" THEN <<Head(items).loc>> ELSE <<>>)
         \o HeaderLocs(Tail(items))

StageRank(stage) ==
  CASE stage = "classification" -> 1
    [] stage = "key_params" -> 2
    [] stage = "plan_identification" -> 3
    [] stage = "per_plan" -> 4
    [] OTHER -> 0

\* The calls of the four stages, without the matcher's.
StageCalls == SelectSeq(calls, LAMBDA c : StageRank(c) > 0)

StagesInOrder ==
  /\ \A i, j \in 1..Len(StageCalls) :
       i < j => StageRank(StageCalls[i]) <= StageRank(StageCalls[j])
  /\ CallsOf("classification") <= 1
  \* no call before normalization and the token count are through
  /\ calls # <<>> =>
       /\ pc \notin {"start", "count", "classify"}
       /\ token_count \in 1..TOKEN_HARD_LIMIT
  \* no key-parameter call before classification returned and the
  \* preliminary selection was made
  /\ CallsOf("key_params") > 0 =>
       /\ CallsOf("classification") = 1
       /\ pc \notin {"start", "count", "classify", "prelim"}
  \* no plan-identification call before the last key-parameter call returned
  /\ pid_locs # <<>> =>
       /\ kp_i > Len(locs)
       /\ Range(DictKeys(key_param_outputs)) = Range(locs)
       /\ pc \notin {"start", "count", "classify", "prelim", "kp"}
  \* no per-plan extraction before the final selection and the recovery
  /\ futs # <<>> =>
       /\ futs = submissions(selected)
       /\ pc \notin {"start", "count", "classify", "prelim", "kp", "pid", "final",
                     "recovery", "fanout"}
  \* before the fan-out nothing runs beside the one thread of run_pipeline
  /\ pc \in {"start", "count", "classify", "prelim", "kp", "pid", "final",
             "recovery", "fanout"} => futs = <<>> /\ CallsOf("per_plan") = 0

NonBlankTrimmed(texts) ==
  LET kept == SelectSeq(texts, LAMBDA t : \E i \in 1..Len(t) : t[i] \notin Whitespace)
  IN [i \in 1..Len(kept) |-> strip(kept[i])]

ComposedUser == composed.messages[2].content
ComposedSystem == composed.messages[1].content

\* The user content of a composer call: the template part if the template
\* without its document slots is not blank, the document part, then the
\* non-blank extra texts in their order.
ComposedLayout ==
  LET body == ReplaceAll(composed.template, DocumentSlot, <<>>)
      tpl == NonBlankTrimmed(<<body>>)
      extras == NonBlankTrimmed(composed.extra_user_texts)
      doc == <<"<Document>", "\n">> \o _canonical_doc(markdown_text)
               \o <<"\n", "</Document>">>
  IN /\ Len(composed.messages) = 2
     /\ composed.messages[1].role = "system"
     /\ composed.messages[2].role = "user"
     /\ Len(ComposedSystem) = 1
     /\ [i \in 1..Len(ComposedUser) |-> ComposedUser[i].text] = tpl \o <<doc>> \o extras
     /\ \A i \in 1..Len(ComposedUser) :
          ComposedUser[i].cache_control # "none" <=> (i = Len(tpl) + 1 /\ composed.enable_cache)

NoEmptyPart(content) == \A i \in 1..Len(content) : content[i].text # <<>>

\* C30: the composer returns two messages, system then user; the system
\* message has one text part; the user content is the template part (if the
\* template is not blank once its document slots are removed), the one
\* document part, then each non-blank extra text in order; no text part of
\* the result is empty.
C30_ComposerLayoutNoEmptyPart ==
  composed.called =>
     /\ ComposedLayout
     /\ NoEmptyPart(ComposedUser)
     /\ NoEmptyPart(ComposedSystem)

\* C30, amended: the same layout, with no empty text part in the user
\* content; the one part of the system message is empty exactly when the
\* system text is blank.
C30_ComposerLayoutUserPartsNonEmpty ==
  composed.called =>
     /\ ComposedLayout
     /\ NoEmptyPart(ComposedUser)
     /\ ComposedSystem[1].text = <<>> <=> NonBlankTrimmed(<<composed.system_text>>) = <<>>

C30_Witness ==
  /\ composed.called
  /\ Occurrences(composed.template, "<Document>") = 2
  /\ composed.system_text = <<" ">>
  /\ composed.extra_user_texts = << <<" ">>, <<" ", "Note B", "\n">> >>
  /\ Len(ComposedUser) = 3
  /\ ComposedUser[3].text = <<"Note B">>
  /\ ComposedSystem[1].text = <<>>

\* The message list of a chat call has a content part with the ephemeral
\* cache marker.
Marked(messages) ==
  \E pos \in PartsOf(messages) :
    messages[pos[1]].content[pos[2]].cache_control = "ephemeral"

\* C31: in every chat call of a run the document part carries the ephemeral
\* cache marker if and only if the run's prompt_cache flag is true.
C31_CacheMarkerFollowsPromptCache ==
  \A k \in SentCalls : Marked(chat_log[k].messages) <=> prompt_cache

\* The stages that are handed the flag follow it.
CacheMarkerFollowsFlagWherePassed ==
  \A k \in 1..Len(chat_log) :
    chat_log[k].stage \in {"key_params", "plan_identification", "per_plan"} =>
      (Marked(chat_log[k].messages) <=> prompt_cache)

\* The candidate list the matcher was given at the preliminary selection.
ClassifierCandidates == flatten_names(locs, plan_listing)

NormalizedCandidates ==
  {norm(ClassifierCandidates[i]) : i \in 1..Len(ClassifierCandidates)}

\* The selection holds one entry, and it normalizes to the name.
SelectsOneNormalizingTo(name) ==
  /\ Len(selected) = 1
  /\ Len(selected[1].plans) = 1
  /\ norm(selected[1].plans[1].plan) = name

\* C32: for Search, when the matcher returns a member of the dash-normalized,
\* trimmed candidate list, exactly one plan entry is selected, the candidate
\* that normalizes to that name, also when its name holds an en or em dash.
C32_NormalizedMatchSelectsOne ==
  (option = "Search" /\ pc = "kp" /\ matches # <<>>
     /\ matches[1] \in NormalizedCandidates)
    => SelectsOneNormalizingTo(matches[1])

\* The same for answers that are the trimmed name of a candidate as listed.
ListedMatchSelectsOne ==
  (option = "Search" /\ pc = "kp" /\ matches # <<>>
     /\ matches[1] \in {Strip(ClassifierCandidates[i]) : i \in 1..Len(ClassifierCandidates)})
    => SelectsOneNormalizingTo(norm(matches[1]))

\* C33: run_plan_identification raises no error of its own: a run that
\* invoked it ends with an exception only when an upstream service failed.
C33_PlanIdentificationRaisesOnlyUpstream ==
  (pc = "raised" /\ pid_locs # <<>>) => error = "UpstreamError"

\* The turn of the key-parameter loop for a LOC without a template mapping.
KpTurnForUnmappedLoc ==
  pc = "kp" /\ kp_i <= Len(locs) /\ locs[kp_i] \notin KnownLocs

KpJoined == pc \in {"pid", "final", "recovery", "fanout", "collect"}

\* C34: Key-Parameter Extraction for a LOC that has no template mapping
\* returns the empty string without a template fetch (which could fail) and
\* without a chat call; the loop goes on to the next LOC, and the LOC adds
\* nothing to kp_extract_output.
C34_UnmappedLocYieldsEmptyKeyParams ==
  /\ [][KpTurnForUnmappedLoc =>
          /\ calls' = calls
          /\ pc' = "kp"
          /\ kp_i' = kp_i + 1
          /\ DictGet(key_param_outputs', locs[kp_i]) = ""]_vars
  /\ [](KpJoined =>
          /\ \A loc \in Range(locs) \ KnownLocs : DictGet(key_param_outputs, loc) = ""
          /\ \A i \in 1..Len(step7_joined) :
               \E loc \in Range(locs) \cap KnownLocs :
                  step7_joined[i] = DictGet(key_param_outputs, loc))

C34_Witness ==
  /\ pc = "pid"
  /\ option = "All Plans"
  /\ Len(locs) = 2
  /\ locs[1] \notin KnownLocs
  /\ locs[2] \in KnownLocs
  /\ CallsOf("key_params") = 1
  /\ Len(step7_joined) = 1

NonSuccess(answer) ==
  \/ answer.kind = "network"
  \/ answer.kind = "response" /\ answer.status_code \notin 200..299
  \/ answer.kind = "response" /\ ~answer.has_text

\* C35: one template fetch sends at most two POSTs; the second only after a
\* first answer of HTTP 400, with the single empty string input "document";
\* any other non-2xx first answer and a network error on the first POST fail
\* the fetch without a retry; a retry that is non-2xx, fails on the network or
\* yields no text fails the fetch with an upstream error (502), and a failed
\* fetch leaves the cache as it was.
C35_FetchRetriesOnceOn400 ==
  /\ [](/\ Len(vellum_fetch.posts) <= 2
        /\ Len(vellum_fetch.posts) = 2 =>
             /\ vellum_fetch.first.kind = "response"
             /\ vellum_fetch.first.status_code = 400
             /\ vellum_fetch.posts[2].inputs =
                  <<[type |-> "STRING", name |-> "document", value |-> ""]>>
        /\ (\/ vellum_fetch.first.kind = "network"
            \/ /\ vellum_fetch.first.kind = "response"
               /\ vellum_fetch.first.status_code \notin (200..299) \cup {400}) =>
             /\ Len(vellum_fetch.posts) = 1
             /\ vellum_fetch.raised
        /\ (Len(vellum_fetch.posts) = 2 /\ NonSuccess(vellum_fetch.second)) =>
             /\ vellum_fetch.raised
             /\ vellum_fetch.code = 502)
  /\ [][(vellum_fetch'.n # vellum_fetch.n /\ vellum_fetch'.raised) =>
          _PROMPT_CACHE' = _PROMPT_CACHE]_vars

C35_Witness ==
  /\ vellum_fetch.n = 2
  /\ Len(vellum_fetch.posts) = 2
  /\ vellum_fetch.second.kind = "response"
  /\ vellum_fetch.second.status_code = 200
  /\ ~vellum_fetch.second.has_text
  /\ vellum_fetch.raised
  /\ DOMAIN _PROMPT_CACHE # {}


\* The names a matcher call of the current stage is given: the classifier
\* listing's in the option narrowing, the plan-id listing's afterwards.
MatcherCandidates ==
  IF pc = "prelim"
  THEN flatten_names(locs, plan_listing)
  ELSE LET listing == parse_plan_listing(plan_id_output)
       IN flatten_names(DictKeys(listing), listing)

MatcherInvoked ==
  /\ Len(calls') = Len(calls) + 1
  /\ calls'[Len(calls')] = "semantic_match"

UnmappedItems == {i \in Futures : futs[i].loc \notin KnownLocs}

\* The entries of the selection under a LOC that is not a key of PROMPT_MAP.
UnmappedSelected ==
  {e \in (1..Len(selected)) \X (1..MaxTasks) :
     selected[e[1]].loc \notin KnownLocs /\ e[2] <= Len(selected[e[1]].plans)}

====
